---- MODULE Spec2Model ----
(***************************************************************************)
(* Model of the node manager of pkg/node/manager/manager.go: the nodes map *)
(* guarded by Manager.mutex, the node entries guarded by nodeEntry.mutex,  *)
(* the handler set guarded by nodeHandlersMu, the close channel, the three *)
(* metrics, and the operations of the manager run by concurrent threads,   *)
(* each split into steps at the points where the code can block or where   *)
(* another thread can observe an intermediate state.                       *)
(*                                                                         *)
(* Spec runs every operation on two caller threads beside the background   *)
(* loop. SpecEvents and SpecConcurrent deliver NodeUpdated and NodeDeleted *)
(* events only, from one caller and from two, against the IP-cache, and    *)
(* record the notifications. SpecInterval adds the interval queries,       *)
(* SpecNew starts before NewManager, and SpecLive is the loop under        *)
(* fairness. SpecDeleteAll and SpecSubscribe add DeleteAllNodes and        *)
(* Subscribe to the events of two callers, and SpecProgress is Spec with   *)
(* every goroutine scheduled fairly.                                       *)
(***************************************************************************)
EXTENDS Integers, FiniteSets, Sequences, TLC

\* ------------------------------------------------------------------ bounds

\* Number of calls of the manager's operations made by the worker threads.
MaxCalls == 3
\* Number of nodeEntry objects that can be live (referenced) at once.
MaxEntries == 3
\* Cap of the datapath-validation counter: the background loop starts no
\* further cycle once it is reached.
MaxValidations == 1

\* ------------------------------------------------------------------ universe

Workers == {"t1", "t2"}
WorkerIndex(t) == IF t = "t1" THEN 1 ELSE 2
BgThread == "bg"
Threads == Workers \cup {BgThread}
NoThread == "none"

Ids == {"n1", "n2"}
Handlers == {"h1", "h2"}
IPs == {1, 2}
Entries == 1..MaxEntries
NoEntry == 0

Kubernetes == "k8s"
KVStore == "kvstore"
Local == "local"
Sources == {Kubernetes, KVStore}

\* The node the agent runs on (node.Node.IsLocal compares with it).
LocalNode == "n1"

Records == [id : Ids, source : Sources, ip : IPs]
NoNode == [id |-> "-", source |-> "-", ip |-> 0]

EventTypes == {"add", "update", "delete"}

\* The keys of the IP-cache: an address in the role NodeUpdated projects it in
\* (a Cilium-internal address, another address of the node, a health address).
Roles == {"internal", "node", "health"}
CacheKeys == Roles \X IPs
NoSource == "-"

\* A record n carries one Cilium-internal address, one other node address and
\* an IPv4 health address, all told apart by n.ip.
InternalAddresses(n) == {<<"internal", n.ip>>}
OtherAddresses(n) == {<<"node", n.ip>>}
HealthAddresses(n) == {<<"health", n.ip>>}

VARIABLES
    nodes,          \* Manager.nodes: identity -> entry (NoEntry when absent)
    enode,          \* nodeEntry.node of every entry object
    emutex,         \* nodeEntry.mutex of every entry object: its holder
    mwriter,        \* Manager.mutex: the thread holding it for writing
    mreaders,       \* Manager.mutex: the threads holding it for reading
    nodeHandlers,   \* Manager.nodeHandlers
    hreaders,       \* Manager.nodeHandlersMu: the threads holding it for reading
    closed,         \* Manager.closeChan has been closed
    crashed,        \* the process has panicked
    eventsReceived, \* Manager.metricEventsReceived, per label pair
    numNodes,       \* Manager.metricNumNodes
    validations,    \* Manager.metricDatapathValidations
    th,             \* per thread: position and locals of the running operation
    calls,          \* number of calls the worker threads have started
    unguarded,      \* history: sites that accessed an entry's record without its guard
    closing,        \* history: what the Close in progress saw and delivered
    ipcache,        \* ipcache.IPIdentityCache: the source owning each bound address
    encryptNode,    \* option.Config.EncryptNode
    log             \* history: the events delivered and the handler calls made

vars == <<nodes, enode, emutex, mwriter, mreaders, nodeHandlers, hreaders, closed,
          crashed, eventsReceived, numNodes, validations, th, calls, unguarded, closing,
          ipcache, encryptNode, log>>

\* The variables by the guard or object they belong to.
mapVars == <<nodes, enode>>
lockVars == <<emutex, mwriter, mreaders, hreaders>>
metricVars == <<eventsReceived, numNodes, validations>>
lifeVars == <<closed, crashed>>
histVars == <<unguarded, closing>>
cacheVars == <<ipcache, encryptNode>>

\* ------------------------------------------------------------------ helpers

\* source.AllowOverwrite: the trust order of the discovery sources.
Rank(s) == CASE s = Local -> 3 [] s = Kubernetes -> 2 [] s = KVStore -> 1 [] OTHER -> 0

AllowOverwrite(existing, new) == Rank(new) >= Rank(existing)

\* node.Node.IsLocal
IsLocal(n) == n.id = LocalNode

\* ipcache.IPIdentityCache.Upsert(ip, ..., Identity{Source: src}): the binding
\* is made, and ownership reported, unless a source that src may not
\* overwrite owns the address.
Owning(cache, k, src) == cache[k] = NoSource \/ AllowOverwrite(cache[k], src)
Upsert(cache, keys, src) ==
    [k \in CacheKeys |-> IF k \in keys /\ Owning(cache, k, src) THEN src ELSE cache[k]]

\* ipcache.IPIdentityCache.Delete(ip, src): the binding is removed unless a
\* source that src may not overwrite owns the address.
Delete(cache, keys, src) ==
    [k \in CacheKeys |-> IF k \in keys /\ Owning(cache, k, src) THEN NoSource ELSE cache[k]]

NoCall == [kind |-> "-", h |-> "-", node |-> NoNode]

\* The locals of a thread that runs no operation.
Idle == [pc |-> "idle", n |-> NoNode, dp |-> FALSE, ent |-> NoEntry, old |-> NoNode,
         todo |-> {}, id |-> "-", hs |-> {}, kind |-> "-", arg |-> NoNode,
         seen |-> {}, call |-> NoCall, cont |-> "-", nh |-> "-", got |-> {},
         raced |-> FALSE, base |-> 0, num |-> 0, ret |-> 0, newm |-> "-", err |-> "-"]

NoClosing == [by |-> NoThread, ids |-> {}, hs |-> {}, stable |-> {}, deliv |-> {},
              twice |-> FALSE]

TrackedIds(nd) == {i \in Ids : nd[i] # NoEntry}

\* Manager.mutex can be taken for writing / for reading.
MutexFree == mwriter = NoThread /\ mreaders = {}
MutexReadable == mwriter = NoThread

Inc(counter, type, src) == [counter EXCEPT ![<<type, src>>] = @ + 1]

\* Entry objects no longer reachable from the map or from a thread are
\* reclaimed: their content is reset, and a later &nodeEntry{} may reuse them.
Referenced(nd, t) == {nd[i] : i \in Ids} \cup {t[x].ent : x \in Threads}
Reclaim(en, nd, t) == [e \in Entries |-> IF e \in Referenced(nd, t) THEN en[e] ELSE NoNode]
FreeEntries == Entries \ Referenced(nodes, th)
NewEntry == CHOOSE e \in FreeEntries : \A f \in FreeEntries : e <= f

TypeOK ==
    /\ nodes \in [Ids -> Entries \cup {NoEntry}]
    /\ enode \in [Entries -> Records \cup {NoNode}]
    /\ emutex \in [Entries -> Threads \cup {NoThread}]
    /\ mwriter \in Threads \cup {NoThread}
    /\ mreaders \subseteq Threads
    /\ nodeHandlers \subseteq Handlers
    /\ hreaders \subseteq Threads
    /\ closed \in BOOLEAN /\ crashed \in BOOLEAN
    /\ numNodes \in Int /\ validations \in Nat
    /\ ipcache \in [CacheKeys -> Sources \cup {NoSource}]
    /\ encryptNode \in BOOLEAN

\* ------------------------------------------------------------------ Init

\* NewManager: empty map, the initial handler subscribed (Subscribe on an
\* empty map replays nothing), the close channel open, metrics at zero, the
\* background loop started.
Init ==
    /\ nodes = [i \in Ids |-> NoEntry]
    /\ enode = [e \in Entries |-> NoNode]
    /\ emutex = [e \in Entries |-> NoThread]
    /\ mwriter = NoThread
    /\ mreaders = {}
    /\ nodeHandlers = {"h1"}
    /\ hreaders = {}
    /\ closed = FALSE
    /\ crashed = FALSE
    /\ eventsReceived = [l \in EventTypes \X Sources |-> 0]
    /\ numNodes = 0
    /\ validations = 0
    /\ th = [t \in Threads |-> IF t = BgThread THEN [Idle EXCEPT !.pc = "bg_start"] ELSE Idle]
    /\ calls = 0
    /\ unguarded = {}
    /\ closing = NoClosing
    /\ ipcache = [k \in CacheKeys |-> NoSource]
    /\ encryptNode = FALSE
    /\ log = <<>>

\* ------------------------------------------------------------------ Iter

\* The entry of a handler callback: the thread stays inside the call until
\* HandlerReturn. A Close in progress on this thread records the delivery, and
\* the thread remembers (got) the handlers the running Iter has called.
EnterHandler(t, h, kind, arg) ==
    [kind |-> kind, h |-> h, node |-> arg]

\* The record a fan-out passes to the handler: the closures of Close,
\* DeleteAllNodes, NodeUpdated and backgroundSync read entry.node when they
\* run; NodeDeleted passes the event's record.
CallArg(t) == IF th[t].arg = NoNode THEN enode[th[t].ent] ELSE th[t].arg

Delivered(t, h, kind, arg) ==
    IF closing.by = t /\ kind = "NodeDelete"
    THEN [closing EXCEPT !.deliv = @ \cup {<<arg.id, h>>},
                         !.twice = @ \/ <<arg.id, h>> \in closing.deliv]
    ELSE closing

\* IterBegin ranging over every handler ever known, subscribed or not.
IterBeginAllHandlers(t) ==
    /\ th[t].pc = "iter"
    /\ \E h \in Handlers :
          /\ hreaders' = hreaders \cup {t}
          /\ th' = [th EXCEPT ![t].pc = "handler",
                              ![t].hs = Handlers \ {h},
                              ![t].got = {h},
                              ![t].call = EnterHandler(t, h, th[t].kind, CallArg(t))]
          /\ closing' = Delivered(t, h, th[t].kind, CallArg(t))
    /\ UNCHANGED <<cacheVars, mapVars, emutex, mwriter, mreaders, nodeHandlers, lifeVars,
                   metricVars, calls, unguarded>>

\* Manager.Iter, first part: take nodeHandlersMu for reading and call f on the
\* first handler of the range; with no handler, the range is empty and Iter
\* returns.
IterBegin(t) ==
    /\ th[t].pc = "iter"
    /\ IF nodeHandlers = {}
       THEN /\ th' = [th EXCEPT ![t].pc = th[t].cont, ![t].cont = "-", ![t].kind = "-",
                                ![t].arg = NoNode]
            /\ UNCHANGED <<hreaders, closing>>
       ELSE \E h \in nodeHandlers :
               /\ hreaders' = hreaders \cup {t}
               /\ th' = [th EXCEPT ![t].pc = "handler",
                                   ![t].hs = nodeHandlers \ {h},
                                   ![t].got = {h},
                                   ![t].call = EnterHandler(t, h, th[t].kind, CallArg(t))]
               /\ closing' = Delivered(t, h, th[t].kind, CallArg(t))
    /\ UNCHANGED <<cacheVars, mapVars, emutex, mwriter, mreaders, nodeHandlers, lifeVars, metricVars,
                   calls, unguarded>>

\* A handler callback returns. Inside Iter the range goes on with the next
\* handler, or ends and releases nodeHandlersMu; a direct call (Subscribe)
\* continues after the call.
HandlerReturn(t) ==
    /\ th[t].pc = "handler"
    /\ IF t \in hreaders /\ th[t].hs # {}
       THEN \E h \in th[t].hs :
               /\ th' = [th EXCEPT ![t].hs = @ \ {h},
                                   ![t].got = @ \cup {h},
                                   ![t].call = EnterHandler(t, h, th[t].kind, CallArg(t))]
               /\ closing' = Delivered(t, h, th[t].kind, CallArg(t))
               /\ UNCHANGED hreaders
       ELSE /\ th' = [th EXCEPT ![t].pc = th[t].cont, ![t].cont = "-", ![t].kind = "-",
                                ![t].arg = NoNode, ![t].call = NoCall, ![t].hs = {},
                                ![t].got = {}]
            /\ hreaders' = hreaders \ {t}
            /\ UNCHANGED closing
    /\ UNCHANGED <<cacheVars, mapVars, emutex, mwriter, mreaders, nodeHandlers, lifeVars, metricVars,
                   calls, unguarded>>

\* Start a fan-out Iter(func(nh) { nh.<kind>(arg) }) and continue at cont.
Fanout(l, kind, arg, cont) ==
    [l EXCEPT !.pc = "iter", !.kind = kind, !.arg = arg, !.cont = cont]

\* An access to the record of entry e by thread t at the given site of the
\* code: it is remembered when t does not hold the entry's guard.
Access(t, e, site) == IF emutex[e] = t THEN unguarded ELSE unguarded \cup {site}

\* A call starts on a thread that runs none. The threads keep nothing from
\* one call to the next, so a new call is given to the first free worker.
CanStart(t) ==
    /\ th[t].pc = "idle"
    /\ calls < MaxCalls
    /\ \A u \in Workers : th[u].pc = "idle" => WorkerIndex(t) <= WorkerIndex(u)

Started(t, l) ==
    /\ th' = [th EXCEPT ![t] = l]
    /\ calls' = calls + 1

\* Subscribe ranges over m.nodes without Manager.mutex (lines 108-112): the
\* range of thread l is open from its first iteration step to its last.
RangeOpen(l) ==
    l.pc \in {"sub_lockEntry", "sub_unlock"} \/ (l.pc = "handler" /\ l.cont = "sub_unlock")

\* Thread t, whose locals become l, inserts into or deletes from m.nodes (gone:
\* the identities removed). A range of Subscribe open at that moment races
\* with the write, and the identities removed are no longer ones that were
\* present for the whole of the range.
MapWritten(t, l, gone) ==
    [u \in Threads |->
        IF u = t THEN l
        ELSE IF RangeOpen(th[u]) THEN [th[u] EXCEPT !.raced = TRUE, !.todo = @ \ gone]
        ELSE th[u]]

\* DeleteAllNodes replaces m.nodes by a new map (line 471): for an open
\* range no identity was present for the whole of it.
MapReplaced(t, l) ==
    [u \in Threads |->
        IF u = t THEN l
        ELSE IF RangeOpen(th[u]) THEN [th[u] EXCEPT !.todo = {}]
        ELSE th[u]]

\* ------------------------------------------------------------------ NodeUpdated

\* NodeUpdated, lines 278-337: the IP-cache projection of the addresses;
\* dpUpdate is the conjunction of the ownership results of the Upserts.
StartNodeUpdated(t) ==
    /\ CanStart(t)
    /\ \E n \in Records, dp \in BOOLEAN :
          Started(t, [Idle EXCEPT !.pc = "upd_lock", !.n = n, !.dp = dp])
    /\ UNCHANGED <<cacheVars, mapVars, lockVars, nodeHandlers, lifeVars, metricVars, histVars>>

\* Lines 284-337: the addresses NodeUpdated projects into the IP-cache: the
\* Cilium-internal ones, the others when the node is encrypted, and the
\* health addresses.
Projected(n, encrypt) ==
    InternalAddresses(n) \cup (IF encrypt THEN OtherAddresses(n) ELSE {})
        \cup HealthAddresses(n)

\* NodeUpdated, lines 278-337, against the IP-cache: every projected address
\* is upserted, and dpUpdate is whether every Upsert reported ownership.
StartNodeUpdatedProjected(t) ==
    /\ CanStart(t)
    /\ \E n \in Records :
          LET keys == Projected(n, encryptNode) IN
          /\ ipcache' = Upsert(ipcache, keys, n.source)
          /\ Started(t, [Idle EXCEPT !.pc = "upd_lock", !.n = n,
                                     !.dp = \A k \in keys : Owning(ipcache, k, n.source)])
    /\ UNCHANGED <<encryptNode, mapVars, lockVars, nodeHandlers, lifeVars, metricVars, histVars>>

\* UpdReject with the increment of the received-events counter left out.
UpdRejectUncounted(t, e) ==
    /\ unguarded' = Access(t, e, "NodeUpdated:344")
    /\ th' = [th EXCEPT ![t] = Idle]
    /\ UNCHANGED <<mapVars, emutex, mwriter, numNodes, eventsReceived>>

\* Lines 341-347: the identity is tracked and arbitration rejects the event.
UpdReject(t, e) ==
    /\ eventsReceived' = Inc(eventsReceived, "update", th[t].n.source)
    /\ unguarded' = Access(t, e, "NodeUpdated:344")
    /\ th' = [th EXCEPT ![t] = Idle]
    /\ UNCHANGED <<mapVars, emutex, mwriter, numNodes>>

\* Lines 341-349: the identity is tracked and arbitration accepts the event;
\* the thread goes on to entry.mutex.Lock() with Manager.mutex held.
UpdAccept(t, e) ==
    /\ eventsReceived' = Inc(eventsReceived, "update", th[t].n.source)
    /\ unguarded' = Access(t, e, "NodeUpdated:344")
    /\ mwriter' = t
    /\ th' = [th EXCEPT ![t].pc = "upd_lockEntry", ![t].ent = e]
    /\ UNCHANGED <<mapVars, emutex, numNodes>>

\* AddFanout with the dpUpdate test dropped.
AddFanoutAlways(l) == Fanout(l, "NodeAdd", NoNode, "upd_unlock")

\* Lines 367-371: the fan-out of NodeAdd(entry.node) when dpUpdate.
AddFanout(l) ==
    IF l.dp THEN Fanout(l, "NodeAdd", NoNode, "upd_unlock") ELSE [l EXCEPT !.pc = "upd_unlock"]

\* UpdAdd with the increment of the gauge left out.
UpdAddKeepsGauge(t) ==
    /\ FreeEntries # {}
    /\ LET e == NewEntry IN
          /\ eventsReceived' = Inc(eventsReceived, "add", th[t].n.source)
          /\ enode' = [enode EXCEPT ![e] = th[t].n]
          /\ emutex' = [emutex EXCEPT ![e] = t]
          /\ nodes' = [nodes EXCEPT ![th[t].n.id] = e]
          /\ th' = MapWritten(t, AddFanout([th[t] EXCEPT !.ent = e]), {})
    /\ UNCHANGED <<mwriter, unguarded, numNodes>>

\* Lines 359-366: the identity is not tracked; a new entry is created locked,
\* inserted, and Manager.mutex released.
UpdAdd(t) ==
    /\ FreeEntries # {}
    /\ LET e == NewEntry IN
          /\ eventsReceived' = Inc(eventsReceived, "add", th[t].n.source)
          /\ numNodes' = numNodes + 1
          /\ enode' = [enode EXCEPT ![e] = th[t].n]
          /\ emutex' = [emutex EXCEPT ![e] = t]
          /\ nodes' = [nodes EXCEPT ![th[t].n.id] = e]
          /\ th' = MapWritten(t, AddFanout([th[t] EXCEPT !.ent = e]), {})
    /\ UNCHANGED <<mwriter, unguarded>>

\* UpdArbitration requiring a strictly more trusted source.
UpdArbitrationStrict(existing, n) == Rank(n.source) > Rank(existing.source)

\* UpdArbitration with the arguments of AllowOverwrite swapped.
UpdArbitrationSwapped(existing, n) == AllowOverwrite(n.source, existing.source)

\* Line 344: the arbitration of an update against the stored record.
UpdArbitration(existing, n) == AllowOverwrite(existing.source, n.source)

\* Lines 339-347 and 359-366: m.mutex.Lock() and the lookup.
UpdLock(t) ==
    /\ th[t].pc = "upd_lock"
    /\ MutexFree
    /\ LET e == nodes[th[t].n.id] IN
          IF e # NoEntry
          THEN IF UpdArbitration(enode[e], th[t].n) THEN UpdAccept(t, e) ELSE UpdReject(t, e)
          ELSE UpdAdd(t)
    /\ UNCHANGED <<cacheVars, mreaders, hreaders, nodeHandlers, lifeVars, validations, calls, closing>>

\* Lines 349-350: entry.mutex.Lock(), then m.mutex.Unlock().
UpdLockEntry(t) ==
    /\ th[t].pc = "upd_lockEntry"
    /\ emutex[th[t].ent] = NoThread
    /\ emutex' = [emutex EXCEPT ![th[t].ent] = t]
    /\ mwriter' = NoThread
    /\ th' = [th EXCEPT ![t].pc = "upd_write"]
    /\ UNCHANGED <<cacheVars, mapVars, mreaders, hreaders, nodeHandlers, lifeVars, metricVars, calls,
                   histVars>>

\* UpdateFanout with the fan-out left out.
UpdateFanoutSkipped(l) == [l EXCEPT !.pc = "upd_unlock"]

\* Lines 353-357: the fan-out of NodeUpdate(oldNode, entry.node) when dpUpdate.
UpdateFanout(l) ==
    IF l.dp THEN Fanout(l, "NodeUpdate", NoNode, "upd_unlock") ELSE [l EXCEPT !.pc = "upd_unlock"]

\* Lines 351-357: the record is swapped, and fanned out when dpUpdate.
UpdWrite(t) ==
    /\ th[t].pc = "upd_write"
    /\ unguarded' = Access(t, th[t].ent, "NodeUpdated:351")
    /\ enode' = [enode EXCEPT ![th[t].ent] = th[t].n]
    /\ th' = [th EXCEPT ![t] = UpdateFanout([th[t] EXCEPT !.old = enode[th[t].ent]])]
    /\ UNCHANGED <<cacheVars, nodes, lockVars, nodeHandlers, lifeVars, metricVars, calls, closing>>

\* Lines 358 and 372: entry.mutex.Unlock(); NodeUpdated returns.
UpdUnlock(t) ==
    /\ th[t].pc = "upd_unlock"
    /\ emutex' = [emutex EXCEPT ![th[t].ent] = NoThread]
    /\ th' = [th EXCEPT ![t] = Idle]
    /\ enode' = Reclaim(enode, nodes, th')
    /\ UNCHANGED <<cacheVars, nodes, mwriter, mreaders, hreaders, nodeHandlers, lifeVars, metricVars,
                   calls, histVars>>

\* ------------------------------------------------------------------ NodeDeleted

\* Lines 380-385: the received-events counter is incremented first.
StartNodeDeleted(t) ==
    /\ CanStart(t)
    /\ \E n \in Records :
          /\ Started(t, [Idle EXCEPT !.pc = "del_lock", !.n = n])
          /\ eventsReceived' = Inc(eventsReceived, "delete", n.source)
    /\ UNCHANGED <<cacheVars, mapVars, lockVars, nodeHandlers, lifeVars, numNodes, validations, histVars>>

\* Lines 397-407: the event's source is not the record's source. An
\* orchestrator delete of the local node closes the manager; any other is
\* ignored. Manager.mutex is released first.
DelMismatch(t, e) ==
    /\ unguarded' = Access(t, e, "NodeDeleted:397")
    /\ th' = [th EXCEPT ![t] =
                 IF IsLocal(th[t].n) /\ th[t].n.source = Kubernetes
                 THEN [th[t] EXCEPT !.pc = "close_lock"]
                 ELSE Idle]
    /\ UNCHANGED <<mwriter, numNodes, ipcache>>

\* DelAccept with the decrement of the gauge left out.
DelAcceptKeepsGauge(t, e) ==
    /\ unguarded' = Access(t, e, "NodeDeleted:397")
    /\ ipcache' = Delete(ipcache, InternalAddresses(enode[e]) \cup OtherAddresses(enode[e]),
                         th[t].n.source)
    /\ mwriter' = t
    /\ th' = [th EXCEPT ![t].pc = "del_lockEntry", ![t].ent = e]
    /\ UNCHANGED numNodes

\* Lines 409-413: the sources match: the addresses of the record are deleted
\* from the IP-cache and the gauge is decremented; the thread goes on to
\* entry.mutex.Lock() with Manager.mutex held.
DelAccept(t, e) ==
    /\ unguarded' = Access(t, e, "NodeDeleted:397")
    /\ ipcache' = Delete(ipcache, InternalAddresses(enode[e]) \cup OtherAddresses(enode[e]),
                         th[t].n.source)
    /\ numNodes' = numNodes - 1
    /\ mwriter' = t
    /\ th' = [th EXCEPT ![t].pc = "del_lockEntry", ![t].ent = e]

\* DelSourceMatches treating every orchestrator delete of the local node as
\* a mismatch.
DelSourceLocalNeverMatches(existing, n) ==
    n.source = existing.source /\ ~(IsLocal(n) /\ n.source = Kubernetes)

\* Line 397: the comparison of the sources.
DelSourceMatches(existing, n) == n.source = existing.source

\* DelLock escalating an orchestrator delete of the local node also when the
\* node is not tracked.
DelLockClosesOnAbsent(t) ==
    /\ th[t].pc = "del_lock"
    /\ MutexFree
    /\ LET e == nodes[th[t].n.id] IN
          IF e = NoEntry
          THEN /\ th' = [th EXCEPT ![t] =
                            IF IsLocal(th[t].n) /\ th[t].n.source = Kubernetes
                            THEN [th[t] EXCEPT !.pc = "close_lock"]
                            ELSE Idle]
               /\ UNCHANGED <<mwriter, numNodes, unguarded, ipcache>>
          ELSE IF DelSourceMatches(enode[e], th[t].n) THEN DelAccept(t, e) ELSE DelMismatch(t, e)
    /\ UNCHANGED <<encryptNode, mapVars, emutex, mreaders, hreaders, nodeHandlers, lifeVars,
                   eventsReceived, validations, calls, closing>>

\* Lines 387-413: m.mutex.Lock() and the lookup.
DelLock(t) ==
    /\ th[t].pc = "del_lock"
    /\ MutexFree
    /\ LET e == nodes[th[t].n.id] IN
          IF e = NoEntry
          THEN /\ th' = [th EXCEPT ![t] = Idle]
               /\ UNCHANGED <<mwriter, numNodes, unguarded, ipcache>>
          ELSE IF DelSourceMatches(enode[e], th[t].n) THEN DelAccept(t, e) ELSE DelMismatch(t, e)
    /\ UNCHANGED <<encryptNode, mapVars, emutex, mreaders, hreaders, nodeHandlers, lifeVars,
                   eventsReceived, validations, calls, closing>>

\* Lines 415-420: entry.mutex.Lock(), the removal from the map,
\* m.mutex.Unlock() and the fan-out of NodeDelete(n).
DelLockEntry(t) ==
    /\ th[t].pc = "del_lockEntry"
    /\ emutex[th[t].ent] = NoThread
    /\ emutex' = [emutex EXCEPT ![th[t].ent] = t]
    /\ nodes' = [nodes EXCEPT ![th[t].n.id] = NoEntry]
    /\ mwriter' = NoThread
    /\ th' = MapWritten(t, Fanout(th[t], "NodeDelete", th[t].n, "del_unlock"), {th[t].n.id})
    /\ UNCHANGED <<cacheVars, enode, mreaders, hreaders, nodeHandlers, lifeVars, metricVars, calls,
                   histVars>>

\* Line 421: entry.mutex.Unlock(); NodeDeleted returns.
DelUnlock(t) ==
    /\ th[t].pc = "del_unlock"
    /\ emutex' = [emutex EXCEPT ![th[t].ent] = NoThread]
    /\ th' = [th EXCEPT ![t] = Idle]
    /\ enode' = Reclaim(enode, nodes, th')
    /\ UNCHANGED <<cacheVars, nodes, mwriter, mreaders, hreaders, nodeHandlers, lifeVars, metricVars,
                   calls, histVars>>

\* ------------------------------------------------------------------ Close

\* The range over m.nodes of Close and DeleteAllNodes goes on with the next
\* entry (in the order of the map's iterator, which is any), or ends.
NextEntry(l, lockPc, endPc) ==
    IF l.todo = {}
    THEN {[l EXCEPT !.pc = endPc, !.ent = NoEntry, !.id = "-"]}
    ELSE {[l EXCEPT !.pc = lockPc, !.ent = nodes[i], !.id = i, !.todo = @ \ {i}] : i \in l.todo}

StartClose(t) ==
    /\ CanStart(t)
    /\ Started(t, [Idle EXCEPT !.pc = "close_lock"])
    /\ UNCHANGED <<cacheVars, mapVars, lockVars, nodeHandlers, lifeVars, metricVars, histVars>>

\* CloseLock returning at once when the close signal is already raised.
CloseLockIdempotent(t) ==
    /\ th[t].pc = "close_lock"
    /\ MutexFree
    /\ IF closed
       THEN /\ th' = [th EXCEPT ![t] = Idle]
            /\ UNCHANGED <<mwriter, closed, closing, crashed>>
       ELSE /\ closed' = TRUE
            /\ mwriter' = t
            /\ closing' = [NoClosing EXCEPT !.by = t, !.ids = TrackedIds(nodes),
                                            !.hs = nodeHandlers, !.stable = nodeHandlers]
            /\ th' \in {[th EXCEPT ![t] = l] :
                          l \in NextEntry([th[t] EXCEPT !.todo = TrackedIds(nodes)],
                                          "close_lockEntry", "close_unlock")}
            /\ UNCHANGED crashed
    /\ UNCHANGED <<cacheVars, mapVars, emutex, mreaders, hreaders, nodeHandlers, metricVars, calls,
                   unguarded>>

\* Lines 175-185: m.mutex.Lock(); close(m.closeChan), which panics on a closed
\* channel; the range over m.nodes starts.
CloseLock(t) ==
    /\ th[t].pc = "close_lock"
    /\ MutexFree
    /\ IF closed
       THEN /\ crashed' = TRUE
            /\ th' = [th EXCEPT ![t].pc = "panic"]
            /\ UNCHANGED <<mwriter, closed, closing>>
       ELSE /\ closed' = TRUE
            /\ mwriter' = t
            /\ closing' = [NoClosing EXCEPT !.by = t, !.ids = TrackedIds(nodes),
                                            !.hs = nodeHandlers, !.stable = nodeHandlers]
            /\ th' \in {[th EXCEPT ![t] = l] :
                          l \in NextEntry([th[t] EXCEPT !.todo = TrackedIds(nodes)],
                                          "close_lockEntry", "close_unlock")}
            /\ UNCHANGED crashed
    /\ UNCHANGED <<cacheVars, mapVars, emutex, mreaders, hreaders, nodeHandlers, metricVars, calls,
                   unguarded>>

\* CloseLockEntry with the fan-out left out.
CloseLockEntryNoFanout(t) ==
    /\ th[t].pc = "close_lockEntry"
    /\ emutex[th[t].ent] = NoThread
    /\ emutex' = [emutex EXCEPT ![th[t].ent] = t]
    /\ th' = [th EXCEPT ![t].pc = "close_unlockEntry"]
    /\ UNCHANGED <<cacheVars, mapVars, mwriter, mreaders, hreaders, nodeHandlers, lifeVars, metricVars,
                   calls, histVars>>

\* Lines 186-189: n.mutex.Lock() and the fan-out of NodeDelete(n.node).
CloseLockEntry(t) ==
    /\ th[t].pc = "close_lockEntry"
    /\ emutex[th[t].ent] = NoThread
    /\ emutex' = [emutex EXCEPT ![th[t].ent] = t]
    /\ th' = [th EXCEPT ![t] = Fanout(th[t], "NodeDelete", NoNode, "close_unlockEntry")]
    /\ UNCHANGED <<cacheVars, mapVars, mwriter, mreaders, hreaders, nodeHandlers, lifeVars, metricVars,
                   calls, histVars>>

\* Line 190: n.mutex.Unlock(); the range goes on.
CloseUnlockEntry(t) ==
    /\ th[t].pc = "close_unlockEntry"
    /\ emutex' = [emutex EXCEPT ![th[t].ent] = NoThread]
    /\ th' \in {[th EXCEPT ![t] = l] :
                  l \in NextEntry(th[t], "close_lockEntry", "close_unlock")}
    /\ UNCHANGED <<cacheVars, mapVars, mwriter, mreaders, hreaders, nodeHandlers, lifeVars, metricVars,
                   calls, histVars>>

\* Lines 176 and 192: the deferred m.mutex.Unlock(); Close returns (to its
\* caller NodeDeleted, which returns too, when called from there).
CloseUnlock(t) ==
    /\ th[t].pc = "close_unlock"
    /\ mwriter' = NoThread
    /\ closing' = NoClosing
    /\ th' = [th EXCEPT ![t] = Idle]
    /\ UNCHANGED <<cacheVars, mapVars, emutex, mreaders, hreaders, nodeHandlers, lifeVars, metricVars,
                   calls, unguarded>>

\* ------------------------------------------------------------------ DeleteAllNodes

StartDeleteAllNodes(t) ==
    /\ CanStart(t)
    /\ Started(t, [Idle EXCEPT !.pc = "da_lock"])
    /\ UNCHANGED <<cacheVars, mapVars, lockVars, nodeHandlers, lifeVars, metricVars, histVars>>

\* Lines 463-464: m.mutex.Lock(); the range over m.nodes starts.
DaLock(t) ==
    /\ th[t].pc = "da_lock"
    /\ MutexFree
    /\ mwriter' = t
    /\ th' \in {[th EXCEPT ![t] = l] :
                  l \in NextEntry([th[t] EXCEPT !.todo = TrackedIds(nodes)],
                                  "da_lockEntry", "da_finish")}
    /\ UNCHANGED <<cacheVars, mapVars, emutex, mreaders, hreaders, nodeHandlers, lifeVars, metricVars,
                   calls, histVars>>

\* Lines 465-468: entry.mutex.Lock() and the fan-out of NodeDelete(entry.node).
DaLockEntry(t) ==
    /\ th[t].pc = "da_lockEntry"
    /\ emutex[th[t].ent] = NoThread
    /\ emutex' = [emutex EXCEPT ![th[t].ent] = t]
    /\ th' = [th EXCEPT ![t] = Fanout(th[t], "NodeDelete", NoNode, "da_unlockEntry")]
    /\ UNCHANGED <<cacheVars, mapVars, mwriter, mreaders, hreaders, nodeHandlers, lifeVars, metricVars,
                   calls, histVars>>

\* Line 469: entry.mutex.Unlock(); the range goes on.
DaUnlockEntry(t) ==
    /\ th[t].pc = "da_unlockEntry"
    /\ emutex' = [emutex EXCEPT ![th[t].ent] = NoThread]
    /\ th' \in {[th EXCEPT ![t] = l] : l \in NextEntry(th[t], "da_lockEntry", "da_finish")}
    /\ UNCHANGED <<cacheVars, mapVars, mwriter, mreaders, hreaders, nodeHandlers, lifeVars, metricVars,
                   calls, histVars>>

\* DaFinish without the replacement of the map.
DaFinishKeepsMap(t) ==
    /\ th[t].pc = "da_finish"
    /\ mwriter' = NoThread
    /\ th' = [th EXCEPT ![t] = Idle]
    /\ UNCHANGED <<cacheVars, mapVars, emutex, mreaders, hreaders, nodeHandlers, lifeVars,
                   metricVars, calls, histVars>>

\* Lines 471-472: the map is replaced by an empty one; m.mutex.Unlock().
DaFinish(t) ==
    /\ th[t].pc = "da_finish"
    /\ nodes' = [i \in Ids |-> NoEntry]
    /\ mwriter' = NoThread
    /\ th' = MapReplaced(t, Idle)
    /\ enode' = Reclaim(enode, nodes', th')
    /\ UNCHANGED <<cacheVars, emutex, mreaders, hreaders, nodeHandlers, lifeVars, metricVars, calls,
                   histVars>>

\* ------------------------------------------------------------------ GetNodes

\* Exists, lines 425-430.
Exists(id) == nodes[id] # NoEntry

\* GetNodeIdentities, lines 434-444.
GetNodeIdentities == TrackedIds(nodes)

StartGetNodes(t) ==
    /\ CanStart(t)
    /\ Started(t, [Idle EXCEPT !.pc = "gn_lock"])
    /\ UNCHANGED <<cacheVars, mapVars, lockVars, nodeHandlers, lifeVars, metricVars, histVars>>

\* The range of GetNodes goes on with the next entry, or ends: the deferred
\* m.mutex.RUnlock() runs and GetNodes returns.
GnNext(l) ==
    IF l.todo = {}
    THEN {Idle}
    ELSE {[l EXCEPT !.pc = "gn_copy", !.ent = nodes[i], !.id = i, !.todo = @ \ {i}] : i \in l.todo}

\* Lines 448-452: m.mutex.RLock(); the range over m.nodes starts.
GnLock(t) ==
    /\ th[t].pc = "gn_lock"
    /\ MutexReadable
    /\ \E l \in GnNext([th[t] EXCEPT !.todo = TrackedIds(nodes)]) :
          /\ th' = [th EXCEPT ![t] = l]
          /\ mreaders' = IF l.pc = "idle" THEN mreaders ELSE mreaders \cup {t}
    /\ UNCHANGED <<cacheVars, mapVars, emutex, mwriter, hreaders, nodeHandlers, lifeVars, metricVars,
                   calls, histVars>>

\* Lines 453-455: entry.mutex.Lock(), the copy of entry.node,
\* entry.mutex.Unlock(); the range goes on.
GnCopy(t) ==
    /\ th[t].pc = "gn_copy"
    /\ emutex[th[t].ent] = NoThread
    /\ \E l \in GnNext(th[t]) :
          /\ th' = [th EXCEPT ![t] = l]
          /\ mreaders' = IF l.pc = "idle" THEN mreaders \ {t} ELSE mreaders
    /\ UNCHANGED <<cacheVars, mapVars, emutex, mwriter, hreaders, nodeHandlers, lifeVars, metricVars,
                   calls, histVars>>

\* ------------------------------------------------------------------ Subscribe

\* The range over m.nodes of Subscribe runs without Manager.mutex, so the map
\* can change under it. As for a Go map iterator, an identity present from
\* the start to the end of the range (l.todo) is produced once, one inserted
\* during the range is produced or not, one removed before it is reached is
\* not. A range that raced with a write of the map has no such guarantee: it
\* can also end having missed identities (or stop the process, SubFatal).
SubNext(l) ==
    LET left == TrackedIds(nodes) \ l.seen IN
    {[l EXCEPT !.pc = "sub_lockEntry", !.ent = nodes[i], !.id = i, !.seen = @ \cup {i}] :
        i \in left}
    \cup (IF left \cap l.todo = {} \/ l.raced THEN {Idle} ELSE {})

\* Lines 104-108: the handler is registered under nodeHandlersMu, then the
\* range over m.nodes starts.
StartSubscribe(t) ==
    /\ CanStart(t)
    /\ hreaders = {}
    /\ \E h \in Handlers :
          /\ nodeHandlers' = nodeHandlers \cup {h}
          /\ Started(t, [Idle EXCEPT !.pc = "sub_range", !.nh = h])
    /\ UNCHANGED <<cacheVars, mapVars, lockVars, lifeVars, metricVars, histVars>>

SubRange(t) ==
    /\ th[t].pc = "sub_range"
    /\ th' \in {[th EXCEPT ![t] = l] : l \in SubNext([th[t] EXCEPT !.todo = TrackedIds(nodes)])}
    /\ UNCHANGED <<cacheVars, mapVars, lockVars, nodeHandlers, lifeVars, metricVars, calls, histVars>>

\* Lines 109-110: v.mutex.Lock() and the direct call nh.NodeAdd(v.node).
SubLockEntry(t) ==
    /\ th[t].pc = "sub_lockEntry"
    /\ emutex[th[t].ent] = NoThread
    /\ emutex' = [emutex EXCEPT ![th[t].ent] = t]
    /\ th' = [th EXCEPT ![t].pc = "handler", ![t].cont = "sub_unlock", ![t].kind = "NodeAdd",
                        ![t].call = EnterHandler(t, th[t].nh, "NodeAdd", enode[th[t].ent])]
    /\ UNCHANGED <<cacheVars, mapVars, mwriter, mreaders, hreaders, nodeHandlers, lifeVars, metricVars,
                   calls, histVars>>

\* Line 111: v.mutex.Unlock(); the range goes on.
SubUnlock(t) ==
    /\ th[t].pc = "sub_unlock"
    /\ emutex' = [emutex EXCEPT ![th[t].ent] = NoThread]
    /\ th' \in {[th EXCEPT ![t] = l] : l \in SubNext(th[t])}
    /\ enode' = Reclaim(enode, nodes, th')
    /\ UNCHANGED <<cacheVars, nodes, mwriter, mreaders, hreaders, nodeHandlers, lifeVars, metricVars,
                   calls, histVars>>

\* Line 108: the runtime detects the concurrent iteration and write of the
\* map ("fatal error: concurrent map iteration and map write") at the next
\* iteration step of a range that raced, and stops the process.
SubFatal(t) ==
    /\ th[t].pc = "sub_unlock"
    /\ th[t].raced
    /\ crashed' = TRUE
    /\ th' = [th EXCEPT ![t].pc = "panic"]
    /\ UNCHANGED <<cacheVars, mapVars, lockVars, nodeHandlers, closed, metricVars, calls,
                   histVars>>

\* Unsubscribe, lines 116-120. A handler that leaves during a Close was not
\* subscribed for the whole of it.
Unsubscribe(t) ==
    /\ CanStart(t)
    /\ hreaders = {}
    /\ \E h \in Handlers :
          /\ nodeHandlers' = nodeHandlers \ {h}
          /\ closing' = [closing EXCEPT !.stable = @ \ {h}]
    /\ calls' = calls + 1
    /\ UNCHANGED <<cacheVars, mapVars, lockVars, lifeVars, metricVars, th, unguarded>>

\* ------------------------------------------------------------------ backgroundSync

\* The range over the snapshot of identities goes on, or ends at the select.
BgNext(l) ==
    IF l.todo = {}
    THEN {[Idle EXCEPT !.pc = "bg_wait"]}
    ELSE {[Idle EXCEPT !.pc = "bg_resolve", !.id = i, !.todo = l.todo \ {i}] : i \in l.todo}

\* Lines 240-246: the interval is computed and the identities are copied,
\* each under m.mutex.RLock().
BgSnapshot(t) ==
    /\ th[t].pc = "bg_start"
    /\ validations < MaxValidations
    /\ MutexReadable
    /\ th' \in {[th EXCEPT ![t] = l] : l \in BgNext([Idle EXCEPT !.todo = GetNodeIdentities])}
    /\ UNCHANGED <<cacheVars, mapVars, lockVars, nodeHandlers, lifeVars, metricVars, calls, histVars>>

\* BgResolve counting a vanished identity as validated.
BgResolveCountsMiss(t) ==
    /\ th[t].pc = "bg_resolve"
    /\ MutexReadable
    /\ IF nodes[th[t].id] = NoEntry
       THEN /\ th' \in {[th EXCEPT ![t] = l] : l \in BgNext(th[t])}
            /\ validations' = validations + 1
            /\ UNCHANGED mreaders
       ELSE /\ th' = [th EXCEPT ![t].pc = "bg_lockEntry", ![t].ent = nodes[th[t].id]]
            /\ mreaders' = mreaders \cup {t}
            /\ UNCHANGED validations
    /\ UNCHANGED <<cacheVars, mapVars, emutex, mwriter, hreaders, nodeHandlers, lifeVars,
                   eventsReceived, numNodes, calls, histVars>>

\* Lines 249-254: m.mutex.RLock() and the lookup of the identity; a vanished
\* identity is skipped.
BgResolve(t) ==
    /\ th[t].pc = "bg_resolve"
    /\ MutexReadable
    /\ IF nodes[th[t].id] = NoEntry
       THEN /\ th' \in {[th EXCEPT ![t] = l] : l \in BgNext(th[t])}
            /\ UNCHANGED mreaders
       ELSE /\ th' = [th EXCEPT ![t].pc = "bg_lockEntry", ![t].ent = nodes[th[t].id]]
            /\ mreaders' = mreaders \cup {t}
    /\ UNCHANGED <<cacheVars, mapVars, emutex, mwriter, hreaders, nodeHandlers, lifeVars, metricVars,
                   calls, histVars>>

\* Lines 256-260: entry.mutex.Lock(), m.mutex.RUnlock() and the fan-out of
\* NodeValidateImplementation(entry.node).
BgLockEntry(t) ==
    /\ th[t].pc = "bg_lockEntry"
    /\ emutex[th[t].ent] = NoThread
    /\ emutex' = [emutex EXCEPT ![th[t].ent] = t]
    /\ mreaders' = mreaders \ {t}
    /\ th' = [th EXCEPT ![t] = Fanout(th[t], "NodeValidateImplementation", NoNode, "bg_unlock")]
    /\ UNCHANGED <<cacheVars, mapVars, mwriter, hreaders, nodeHandlers, lifeVars, metricVars, calls,
                   histVars>>

\* BgUnlock with entry.mutex.Unlock() left out.
BgUnlockKeepsEntry(t) ==
    /\ th[t].pc = "bg_unlock"
    /\ validations' = validations + 1
    /\ th' \in {[th EXCEPT ![t] = l] : l \in BgNext(th[t])}
    /\ UNCHANGED <<cacheVars, mapVars, lockVars, nodeHandlers, lifeVars, eventsReceived, numNodes, calls,
                   histVars>>

\* Lines 261-263: entry.mutex.Unlock() and the validation counter.
BgUnlock(t) ==
    /\ th[t].pc = "bg_unlock"
    /\ emutex' = [emutex EXCEPT ![th[t].ent] = NoThread]
    /\ validations' = validations + 1
    /\ th' \in {[th EXCEPT ![t] = l] : l \in BgNext(th[t])}
    /\ enode' = Reclaim(enode, nodes, th')
    /\ UNCHANGED <<cacheVars, nodes, mwriter, mreaders, hreaders, nodeHandlers, lifeVars, eventsReceived,
                   numNodes, calls, histVars>>

\* BgTimer of a loop that returns when its interval has elapsed.
BgTimerReturns(t) ==
    /\ th[t].pc = "bg_wait"
    /\ ~closed
    /\ th' = [th EXCEPT ![t].pc = "bg_done"]
    /\ UNCHANGED <<cacheVars, mapVars, lockVars, nodeHandlers, lifeVars, metricVars, calls, histVars>>

\* Lines 266-270: the select: the interval elapses, before the close channel
\* is closed, and the loop goes on. (The timer of a select entered with the
\* channel closed has not elapsed: that select returns.)
BgTimer(t) ==
    /\ th[t].pc = "bg_wait"
    /\ ~closed
    /\ th' = [th EXCEPT ![t].pc = "bg_start"]
    /\ UNCHANGED <<cacheVars, mapVars, lockVars, nodeHandlers, lifeVars, metricVars, calls, histVars>>

\* Lines 266-268: the select: the close channel is closed and the loop returns.
BgExit(t) ==
    /\ th[t].pc = "bg_wait"
    /\ closed
    /\ th' = [th EXCEPT ![t].pc = "bg_done"]
    /\ UNCHANGED <<cacheVars, mapVars, lockVars, nodeHandlers, lifeVars, metricVars, calls, histVars>>

\* ------------------------------------------------------------------ ClusterSizeDependantInterval

\* Durations are whole nanoseconds (time.Duration). The float64 arithmetic of
\* line 229 is done in fixed point: a real x is held as the integer x * Scale.
Scale == 10000000
ScaleHigh == 10000
ScaleLow == 1000

\* The base intervals the callers pass (60000: the digits of one minute).
Bases == {-3, 0, 1, 2, 3, 5, 9, 60000}

\* The sum over k of Scale / ((2k+1) * d^(2k+1)), p being d^(2k+1): the series
\* of artanh(1/d), every term rounded down, cut where the terms have vanished.
RECURSIVE AtanhSeries(_, _, _)
AtanhSeries(d, p, k) ==
    IF p > Scale THEN 0
    ELSE (Scale \div ((2 * k + 1) * p)) + AtanhSeries(d, p * d * d, k + 1)

\* Log1p returning ln 2 for every positive node count.
Log1pOfOne(n) == IF n = 0 THEN 0 ELSE 2 * AtanhSeries(3, 3, 0)

\* math.Log1p(float64(numNodes)), times Scale: ln(1+n) is the sum for j in
\* 1..n of ln(1+j) - ln(j) = 2 artanh(1/(2j+1)).
RECURSIVE Log1p(_)
Log1p(n) == IF n = 0 THEN 0 ELSE Log1p(n - 1) + 2 * AtanhSeries(2 * n + 1, 2 * n + 1, 0)

\* float64(b) * l for a base b >= 0 and l = ln(1+n) * Scale, converted by
\* int64(): the product is divided by Scale, the fraction dropped. (Scale is
\* ScaleHigh * ScaleLow, and the product is formed in two parts.)
ProductTruncated(b, l) ==
    (b * (l \div ScaleHigh) + ((b * (l % ScaleHigh)) \div ScaleHigh)) \div ScaleLow

\* Line 230: int64(waitNanoseconds) drops the fraction, towards zero.
Int64(b, l) == IF b >= 0 THEN ProductTruncated(b, l) ELSE 0 - ProductTruncated(0 - b, l)

\* ClusterSizeDependantInterval without the test for zero nodes.
IntervalWithoutZeroCase(baseInterval, n) == Int64(baseInterval, Log1p(n))

\* Lines 225-230: the interval for n tracked nodes.
ClusterSizeDependantInterval(baseInterval, n) ==
    IF n = 0 THEN baseInterval ELSE Int64(baseInterval, Log1p(n))

\* A query starts on the first free worker; it is not counted as a call.
CanQuery(t) ==
    /\ th[t].pc = "idle"
    /\ \A u \in Workers : th[u].pc = "idle" => WorkerIndex(t) <= WorkerIndex(u)

StartInterval(t) ==
    /\ CanQuery(t)
    /\ \E b \in Bases : th' = [th EXCEPT ![t] = [Idle EXCEPT !.pc = "csdi_len", !.base = b]]
    /\ UNCHANGED <<cacheVars, mapVars, lockVars, nodeHandlers, lifeVars, metricVars, calls,
                   histVars>>

\* Lines 219-221: m.mutex.RLock(); numNodes := len(m.nodes); m.mutex.RUnlock().
IntervalLen(t) ==
    /\ th[t].pc = "csdi_len"
    /\ MutexReadable
    /\ th' = [th EXCEPT ![t].pc = "csdi_compute", ![t].num = Cardinality(TrackedIds(nodes))]
    /\ UNCHANGED <<cacheVars, mapVars, lockVars, nodeHandlers, lifeVars, metricVars, calls,
                   histVars>>

\* Lines 225-230: the value to return is computed.
IntervalCompute(t) ==
    /\ th[t].pc = "csdi_compute"
    /\ th' = [th EXCEPT ![t].pc = "csdi_return",
                        ![t].ret = ClusterSizeDependantInterval(th[t].base, th[t].num)]
    /\ UNCHANGED <<cacheVars, mapVars, lockVars, nodeHandlers, lifeVars, metricVars, calls,
                   histVars>>

\* ClusterSizeDependantInterval returns th[t].ret.
IntervalReturn(t) ==
    /\ th[t].pc = "csdi_return"
    /\ th' = [th EXCEPT ![t] = Idle]
    /\ UNCHANGED <<cacheVars, mapVars, lockVars, nodeHandlers, lifeVars, metricVars, calls,
                   histVars>>

\* ------------------------------------------------------------------ Next

\* The handler calls are not recorded.
NotLogged == UNCHANGED log

Next ==
    /\ ~crashed
    /\ NotLogged
    /\ \/ \E t \in Workers : StartNodeUpdated(t)
       \/ \E t \in Workers : UpdLock(t)
       \/ \E t \in Workers : UpdLockEntry(t)
       \/ \E t \in Workers : UpdWrite(t)
       \/ \E t \in Workers : UpdUnlock(t)
       \/ \E t \in Workers : StartNodeDeleted(t)
       \/ \E t \in Workers : DelLock(t)
       \/ \E t \in Workers : DelLockEntry(t)
       \/ \E t \in Workers : DelUnlock(t)
       \/ \E t \in Workers : StartClose(t)
       \/ \E t \in Workers : CloseLock(t)
       \/ \E t \in Workers : CloseLockEntry(t)
       \/ \E t \in Workers : CloseUnlockEntry(t)
       \/ \E t \in Workers : CloseUnlock(t)
       \/ \E t \in Workers : StartDeleteAllNodes(t)
       \/ \E t \in Workers : DaLock(t)
       \/ \E t \in Workers : DaLockEntry(t)
       \/ \E t \in Workers : DaUnlockEntry(t)
       \/ \E t \in Workers : DaFinish(t)
       \/ \E t \in Workers : StartGetNodes(t)
       \/ \E t \in Workers : GnLock(t)
       \/ \E t \in Workers : GnCopy(t)
       \/ \E t \in Workers : StartSubscribe(t)
       \/ \E t \in Workers : SubRange(t)
       \/ \E t \in Workers : SubLockEntry(t)
       \/ \E t \in Workers : SubUnlock(t)
       \/ \E t \in Workers : SubFatal(t)
       \/ \E t \in Workers : Unsubscribe(t)
       \/ \E t \in Threads : IterBegin(t)
       \/ \E t \in Threads : HandlerReturn(t)
       \/ BgSnapshot(BgThread)
       \/ BgResolve(BgThread)
       \/ BgLockEntry(BgThread)
       \/ BgUnlock(BgThread)
       \/ BgTimer(BgThread)
       \/ BgExit(BgThread)

Spec == Init /\ [][Next]_vars

\* ------------------------------------------------------------------ one event source

\* The manager driven by one caller that delivers NodeUpdated and NodeDeleted
\* events one at a time, against the IP-cache, with node encryption on or
\* off. The events delivered and the notifications made are recorded in log.
Caller == "t1"

LogEntry(kind, h, old, node, dp) ==
    [kind |-> kind, h |-> h, old |-> old, node |-> node, dp |-> dp]

\* The entry of the log a step adds: the event a caller starts to deliver,
\* or the NodeAdd, NodeUpdate or NodeDelete call a thread enters.
Logged ==
    LET starts == {t \in Threads : th[t].pc = "idle" /\ th'[t].pc \in {"upd_lock", "del_lock"}}
        enters == {t \in Threads : /\ th'[t].call # th[t].call
                                    /\ th'[t].call.kind \in {"NodeAdd", "NodeUpdate", "NodeDelete"}}
    IN  log' =
          IF starts # {}
          THEN LET l == th'[CHOOSE t \in starts : TRUE] IN
               Append(log, LogEntry(IF l.pc = "upd_lock" THEN "NodeUpdated" ELSE "NodeDeleted",
                                    "-", NoNode, l.n, l.dp))
          ELSE IF enters # {}
          THEN LET l == th'[CHOOSE t \in enters : TRUE] IN
               Append(log, LogEntry(l.call.kind, l.call.h,
                                    IF l.call.kind = "NodeUpdate" THEN l.old ELSE NoNode,
                                    l.call.node, TRUE))
          ELSE log

InitEvents ==
    /\ nodes = [i \in Ids |-> NoEntry]
    /\ enode = [e \in Entries |-> NoNode]
    /\ emutex = [e \in Entries |-> NoThread]
    /\ mwriter = NoThread
    /\ mreaders = {}
    /\ nodeHandlers = {"h1"}
    /\ hreaders = {}
    /\ closed = FALSE
    /\ crashed = FALSE
    /\ eventsReceived = [l \in EventTypes \X Sources |-> 0]
    /\ numNodes = 0
    /\ validations = 0
    /\ th = [t \in Threads |-> IF t = BgThread THEN [Idle EXCEPT !.pc = "bg_start"] ELSE Idle]
    /\ calls = 0
    /\ unguarded = {}
    /\ closing = NoClosing
    /\ ipcache = [k \in CacheKeys |-> NoSource]
    /\ encryptNode \in BOOLEAN
    /\ log = <<>>

NextEvents ==
    /\ ~crashed
    /\ \/ StartNodeUpdatedProjected(Caller)
       \/ UpdLock(Caller)
       \/ UpdLockEntry(Caller)
       \/ UpdWrite(Caller)
       \/ UpdUnlock(Caller)
       \/ StartNodeDeleted(Caller)
       \/ DelLock(Caller)
       \/ DelLockEntry(Caller)
       \/ DelUnlock(Caller)
       \/ CloseLock(Caller)
       \/ CloseLockEntry(Caller)
       \/ CloseUnlockEntry(Caller)
       \/ CloseUnlock(Caller)
       \/ \E t \in Threads : IterBegin(t)
       \/ \E t \in Threads : HandlerReturn(t)
       \/ BgSnapshot(BgThread)
       \/ BgResolve(BgThread)
       \/ BgLockEntry(BgThread)
       \/ BgUnlock(BgThread)
       \/ BgTimer(BgThread)
       \/ BgExit(BgThread)
    /\ Logged

SpecEvents == InitEvents /\ [][NextEvents]_vars

\* ------------------------------------------------------------------ two event sources

\* The manager driven by two callers that deliver NodeUpdated and NodeDeleted
\* events concurrently, against the IP-cache; the events delivered and the
\* notifications made are recorded in log.
NextConcurrent ==
    /\ ~crashed
    /\ \/ \E t \in Workers : StartNodeUpdatedProjected(t)
       \/ \E t \in Workers : UpdLock(t)
       \/ \E t \in Workers : UpdLockEntry(t)
       \/ \E t \in Workers : UpdWrite(t)
       \/ \E t \in Workers : UpdUnlock(t)
       \/ \E t \in Workers : StartNodeDeleted(t)
       \/ \E t \in Workers : DelLock(t)
       \/ \E t \in Workers : DelLockEntry(t)
       \/ \E t \in Workers : DelUnlock(t)
       \/ \E t \in Workers : CloseLock(t)
       \/ \E t \in Workers : CloseLockEntry(t)
       \/ \E t \in Workers : CloseUnlockEntry(t)
       \/ \E t \in Workers : CloseUnlock(t)
       \/ \E t \in Workers : IterBegin(t)
       \/ \E t \in Workers : HandlerReturn(t)
    /\ Logged

SpecConcurrent == Init /\ [][NextConcurrent]_vars

\* ------------------------------------------------------------------ interval queries

\* The manager that tracks a growing set of nodes while its callers ask for
\* the interval that depends on the cluster size.
NextInterval ==
    /\ ~crashed
    /\ NotLogged
    /\ \/ \E t \in Workers : StartNodeUpdated(t)
       \/ \E t \in Workers : UpdLock(t)
       \/ \E t \in Workers : UpdLockEntry(t)
       \/ \E t \in Workers : UpdWrite(t)
       \/ \E t \in Workers : UpdUnlock(t)
       \/ \E t \in Workers : IterBegin(t)
       \/ \E t \in Workers : HandlerReturn(t)
       \/ \E t \in Workers : StartInterval(t)
       \/ \E t \in Workers : IntervalLen(t)
       \/ \E t \in Workers : IntervalCompute(t)
       \/ \E t \in Workers : IntervalReturn(t)

SpecInterval == Init /\ [][NextInterval]_vars

\* ------------------------------------------------------------------ NewManager

\* The handler passed to NewManager.
InitialHandler == "h1"

\* metrics.RegisterList: nil, or the error of a collector already registered.
RegisterListResults == {"nil", "AlreadyRegisteredError"}

\* Before NewManager is called: no handler, no background goroutine.
InitNew ==
    /\ nodes = [i \in Ids |-> NoEntry]
    /\ enode = [e \in Entries |-> NoNode]
    /\ emutex = [e \in Entries |-> NoThread]
    /\ mwriter = NoThread
    /\ mreaders = {}
    /\ nodeHandlers = {}
    /\ hreaders = {}
    /\ closed = FALSE
    /\ crashed = FALSE
    /\ eventsReceived = [l \in EventTypes \X Sources |-> 0]
    /\ numNodes = 0
    /\ validations = 0
    /\ th = [t \in Threads |->
                IF t = BgThread THEN [Idle EXCEPT !.pc = "bg_none"]
                ELSE IF t = Caller THEN [Idle EXCEPT !.pc = "new"]
                ELSE Idle]
    /\ calls = 0
    /\ unguarded = {}
    /\ closing = NoClosing
    /\ ipcache = [k \in CacheKeys |-> NoSource]
    /\ encryptNode = FALSE
    /\ log = <<>>

\* Lines 134-140: the manager is allocated and the handler subscribed (the
\* range of Subscribe over the empty map calls nothing).
NewSubscribe(t) ==
    /\ th[t].pc = "new"
    /\ nodeHandlers' = nodeHandlers \cup {InitialHandler}
    /\ th' = [th EXCEPT ![t].pc = "new_register"]
    /\ UNCHANGED <<cacheVars, mapVars, lockVars, lifeVars, metricVars, calls, histVars>>

\* NewRegister starting the background goroutine before it tests the error.
NewRegisterAfterGo(t) ==
    /\ th[t].pc = "new_register"
    /\ \E err \in RegisterListResults :
          th' = [th EXCEPT ![t].pc = IF err = "nil" THEN "new_go" ELSE "new_returned",
                           ![t].newm = IF err = "nil" THEN "-" ELSE "nil",
                           ![t].err = IF err = "nil" THEN "-" ELSE err,
                           ![BgThread].pc = IF err = "nil" THEN @ ELSE "bg_start"]
    /\ UNCHANGED <<cacheVars, mapVars, lockVars, nodeHandlers, lifeVars, metricVars, calls,
                   histVars>>

\* Lines 142-166: the metrics are created and registered; when the
\* registration fails, NewManager returns nil and the error.
NewRegister(t) ==
    /\ th[t].pc = "new_register"
    /\ \E err \in RegisterListResults :
          th' = [th EXCEPT ![t].pc = IF err = "nil" THEN "new_go" ELSE "new_returned",
                           ![t].newm = IF err = "nil" THEN "-" ELSE "nil",
                           ![t].err = IF err = "nil" THEN "-" ELSE err]
    /\ UNCHANGED <<cacheVars, mapVars, lockVars, nodeHandlers, lifeVars, metricVars, calls,
                   histVars>>

\* Lines 168-170: go m.backgroundSync(); NewManager returns the manager.
NewGo(t) ==
    /\ th[t].pc = "new_go"
    /\ th' = [th EXCEPT ![t].pc = "new_returned", ![t].newm = "m", ![t].err = "nil",
                        ![BgThread].pc = "bg_start"]
    /\ UNCHANGED <<cacheVars, mapVars, lockVars, nodeHandlers, lifeVars, metricVars, calls,
                   histVars>>

\* The caller of NewManager goes on to use the manager it was returned; with
\* none, there is nothing it can call.
NewUse(t) ==
    /\ th[t].pc = "new_returned"
    /\ th[t].newm = "m"
    /\ th' = [th EXCEPT ![t] = Idle]
    /\ UNCHANGED <<cacheVars, mapVars, lockVars, nodeHandlers, lifeVars, metricVars, calls,
                   histVars>>

NextNew ==
    /\ ~crashed
    /\ NotLogged
    /\ \/ NewSubscribe(Caller)
       \/ NewRegister(Caller)
       \/ NewGo(Caller)
       \/ NewUse(Caller)
       \/ StartNodeUpdated(Caller)
       \/ UpdLock(Caller)
       \/ UpdLockEntry(Caller)
       \/ UpdWrite(Caller)
       \/ UpdUnlock(Caller)
       \/ \E t \in Threads : IterBegin(t)
       \/ \E t \in Threads : HandlerReturn(t)
       \/ BgSnapshot(BgThread)
       \/ BgResolve(BgThread)
       \/ BgLockEntry(BgThread)
       \/ BgUnlock(BgThread)
       \/ BgTimer(BgThread)

SpecNew == InitNew /\ [][NextNew]_vars

\* ------------------------------------------------------------------ the loop for ever

\* The background loop with no end to its cycles: the validation counter is
\* kept up to MaxValidations only, and no cycle waits for it.
BgSnapshotAgain(t) ==
    /\ th[t].pc = "bg_start"
    /\ MutexReadable
    /\ th' \in {[th EXCEPT ![t] = l] : l \in BgNext([Idle EXCEPT !.todo = GetNodeIdentities])}
    /\ UNCHANGED <<cacheVars, mapVars, lockVars, nodeHandlers, lifeVars, metricVars, calls, histVars>>

\* Lines 261-263, the counter saturating.
BgUnlockAgain(t) ==
    /\ th[t].pc = "bg_unlock"
    /\ emutex' = [emutex EXCEPT ![th[t].ent] = NoThread]
    /\ validations' = IF validations < MaxValidations THEN validations + 1 ELSE validations
    /\ th' \in {[th EXCEPT ![t] = l] : l \in BgNext(th[t])}
    /\ enode' = Reclaim(enode, nodes, th')
    /\ UNCHANGED <<cacheVars, nodes, mwriter, mreaders, hreaders, nodeHandlers, lifeVars, eventsReceived,
                   numNodes, calls, histVars>>

\* The steps of the background goroutine.
BgStep ==
    /\ ~crashed
    /\ NotLogged
    /\ \/ BgSnapshotAgain(BgThread)
       \/ BgResolve(BgThread)
       \/ BgLockEntry(BgThread)
       \/ BgUnlockAgain(BgThread)
       \/ BgTimer(BgThread)
       \/ BgExit(BgThread)
       \/ IterBegin(BgThread)
       \/ HandlerReturn(BgThread)

\* The steps of a call in progress on the caller's goroutine.
CallerStep ==
    /\ ~crashed
    /\ NotLogged
    /\ \/ UpdLock(Caller)
       \/ UpdLockEntry(Caller)
       \/ UpdWrite(Caller)
       \/ UpdUnlock(Caller)
       \/ DelLock(Caller)
       \/ DelLockEntry(Caller)
       \/ DelUnlock(Caller)
       \/ CloseLock(Caller)
       \/ CloseLockEntry(Caller)
       \/ CloseUnlockEntry(Caller)
       \/ CloseUnlock(Caller)
       \/ IterBegin(Caller)
       \/ HandlerReturn(Caller)

\* The events the caller delivers.
CallerStart ==
    /\ ~crashed
    /\ NotLogged
    /\ \/ StartNodeUpdated(Caller)
       \/ StartNodeDeleted(Caller)

NextLive == BgStep \/ CallerStep \/ CallerStart

\* Every goroutine that can take a step takes one in the end: the scheduler
\* runs every runnable goroutine, the handlers return, and the timer of the
\* select fires.
SpecLive == Init /\ [][NextLive]_vars /\ WF_vars(BgStep) /\ WF_vars(CallerStep)

\* ------------------------------------------------------------------ events and DeleteAllNodes

\* The workers deliver NodeUpdated and NodeDeleted events and call
\* DeleteAllNodes, in any interleaving; the log records the events and the
\* notifications.
NextDeleteAll ==
    /\ ~crashed
    /\ \/ \E t \in Workers : StartNodeUpdatedProjected(t)
       \/ \E t \in Workers : UpdLock(t)
       \/ \E t \in Workers : UpdLockEntry(t)
       \/ \E t \in Workers : UpdWrite(t)
       \/ \E t \in Workers : UpdUnlock(t)
       \/ \E t \in Workers : StartNodeDeleted(t)
       \/ \E t \in Workers : DelLock(t)
       \/ \E t \in Workers : DelLockEntry(t)
       \/ \E t \in Workers : DelUnlock(t)
       \/ \E t \in Workers : CloseLock(t)
       \/ \E t \in Workers : CloseLockEntry(t)
       \/ \E t \in Workers : CloseUnlockEntry(t)
       \/ \E t \in Workers : CloseUnlock(t)
       \/ \E t \in Workers : StartDeleteAllNodes(t)
       \/ \E t \in Workers : DaLock(t)
       \/ \E t \in Workers : DaLockEntry(t)
       \/ \E t \in Workers : DaUnlockEntry(t)
       \/ \E t \in Workers : DaFinish(t)
       \/ \E t \in Workers : IterBegin(t)
       \/ \E t \in Workers : HandlerReturn(t)
    /\ Logged

SpecDeleteAll == Init /\ [][NextDeleteAll]_vars

\* ------------------------------------------------------------------ events and Subscribe

\* Subscribe called with a handler that is not subscribed.
StartSubscribeNew(t) ==
    /\ StartSubscribe(t)
    /\ th'[t].nh \notin nodeHandlers

\* The workers deliver NodeUpdated and NodeDeleted events and subscribe
\* handlers, each once, in any interleaving; the log records the events and
\* the notifications, those of Subscribe's replay included.
NextSubscribe ==
    /\ ~crashed
    /\ \/ \E t \in Workers : StartNodeUpdatedProjected(t)
       \/ \E t \in Workers : UpdLock(t)
       \/ \E t \in Workers : UpdLockEntry(t)
       \/ \E t \in Workers : UpdWrite(t)
       \/ \E t \in Workers : UpdUnlock(t)
       \/ \E t \in Workers : StartNodeDeleted(t)
       \/ \E t \in Workers : DelLock(t)
       \/ \E t \in Workers : DelLockEntry(t)
       \/ \E t \in Workers : DelUnlock(t)
       \/ \E t \in Workers : CloseLock(t)
       \/ \E t \in Workers : CloseLockEntry(t)
       \/ \E t \in Workers : CloseUnlockEntry(t)
       \/ \E t \in Workers : CloseUnlock(t)
       \/ \E t \in Workers : StartSubscribeNew(t)
       \/ \E t \in Workers : SubRange(t)
       \/ \E t \in Workers : SubLockEntry(t)
       \/ \E t \in Workers : SubUnlock(t)
       \/ \E t \in Workers : SubFatal(t)
       \/ \E t \in Workers : IterBegin(t)
       \/ \E t \in Workers : HandlerReturn(t)
    /\ Logged

SpecSubscribe == Init /\ [][NextSubscribe]_vars

\* ------------------------------------------------------------------ every operation, scheduled fairly

\* The steps of the operation in progress on thread t, the background loop's
\* when t is its goroutine; the calls that start an operation are not among
\* them.
ThreadStep(t) ==
    /\ ~crashed
    /\ NotLogged
    /\ \/ UpdLock(t) \/ UpdLockEntry(t) \/ UpdWrite(t) \/ UpdUnlock(t)
       \/ DelLock(t) \/ DelLockEntry(t) \/ DelUnlock(t)
       \/ CloseLock(t) \/ CloseLockEntry(t) \/ CloseUnlockEntry(t) \/ CloseUnlock(t)
       \/ DaLock(t) \/ DaLockEntry(t) \/ DaUnlockEntry(t) \/ DaFinish(t)
       \/ GnLock(t) \/ GnCopy(t)
       \/ SubRange(t) \/ SubLockEntry(t) \/ SubUnlock(t) \/ SubFatal(t)
       \/ IterBegin(t) \/ HandlerReturn(t)
       \/ (t = BgThread /\ (\/ BgSnapshot(t) \/ BgResolve(t) \/ BgLockEntry(t)
                              \/ BgUnlock(t) \/ BgTimer(t) \/ BgExit(t)))

\* Every operation of the manager in any interleaving, as in Spec; the
\* scheduler runs every goroutine that can take a step, a guard that is free
\* is granted to a goroutine that waits for it, and the handlers return.
SpecProgress == Init /\ [][Next]_vars /\ \A t \in Threads : WF_vars(ThreadStep(t))

\* ------------------------------------------------------------------ claims

\* The threads inside a handler callback, and the node the callback is about.
InHandler(t) == th[t].pc = "handler"

\* C1: a NodeUpdated from a source never replaces a tracked record owned by
\* a strictly more trusted source: every replacement of an entry's record
\* goes from a source to one that may overwrite it.
C1_NoOverwriteByLessTrusted ==
    [][\A e \in Entries :
          (enode[e] # NoNode /\ enode'[e] # NoNode /\ enode'[e] # enode[e])
              => AllowOverwrite(enode[e].source, enode'[e].source)]_vars

\* C2: at most one thread at a time is inside a handler callback for a
\* given node identity.
C2_OneThreadPerNode ==
    \A t, u \in Threads :
        (t # u /\ InHandler(t) /\ InHandler(u)) => th[t].call.node.id # th[u].call.node.id

\* C3: a NodeDeleted removes the entry only when the record stored at that
\* moment has the source of the event.
C3_DeleteRequiresSourceMatch ==
    [][\A t \in Workers :
          (th[t].pc = "del_lockEntry" /\ nodes[th[t].n.id] # NoEntry
              /\ nodes'[th[t].n.id] = NoEntry)
              => enode[nodes[th[t].n.id]].source = th[t].n.source]_vars

\* C4 as amended: NodeUpdated fans NodeAdd / NodeUpdate out only when every
\* Upsert reported ownership, and an event that arbitration does not reject
\* is recorded also when an Upsert reported non-ownership: when NodeUpdated
\* returns, the identity is tracked with the event's record.
InNodeUpdatedFanout(t) == th[t].pc \in {"iter", "handler"} /\ th[t].cont = "upd_unlock"

C4_FanoutOnlyWhenOwned ==
    /\ [](\A t \in Workers : InNodeUpdatedFanout(t) => th[t].dp)
    /\ [][\A t \in Workers :
             (th[t].pc = "upd_unlock" /\ th'[t].pc = "idle" /\ ~th[t].dp)
                 => /\ nodes'[th[t].n.id] # NoEntry
                    /\ enode'[nodes'[th[t].n.id]] = th[t].n]_vars

\* C4 as stated: whenever an Upsert reported non-ownership no handler is
\* called and, when NodeUpdated returns, the identity is tracked with the
\* event's record.
C4_Original ==
    /\ [](\A t \in Workers : InNodeUpdatedFanout(t) => th[t].dp)
    /\ [][\A t \in Workers :
             (th[t].pc \in {"upd_lock", "upd_unlock"} /\ th'[t].pc = "idle" /\ ~th[t].dp)
                 => /\ nodes'[th[t].n.id] # NoEntry
                    /\ enode'[nodes'[th[t].n.id]] = th[t].n]_vars

\* An accepted NodeUpdated with a non-owned projection is about to return.
C4_Witness ==
    \E t \in Workers :
        /\ th[t].pc = "upd_unlock" /\ ~th[t].dp
        /\ th[t].old # NoNode
        /\ enode[nodes[th[t].n.id]] = th[t].n

\* C5: a NodeUpdated for a tracked identity that arbitration rejects returns
\* at once, having changed nothing but the received-events counter, which it
\* incremented once: the map, the records, the gauge, the handler set and
\* the lifecycle are unchanged, and no fan-out was started.
C5_RejectedUpdateIsNoOp ==
    [][\A t \in Workers :
          (/\ th[t].pc = "upd_lock" /\ th'[t].pc # "upd_lock"
           /\ nodes[th[t].n.id] # NoEntry
           /\ ~AllowOverwrite(enode[nodes[th[t].n.id]].source, th[t].n.source))
              => /\ th'[t] = Idle
                 /\ nodes' = nodes /\ enode' = enode /\ numNodes' = numNodes
                 /\ nodeHandlers' = nodeHandlers /\ closed' = closed
                 /\ emutex' = emutex /\ mwriter' = mwriter
                 /\ eventsReceived' = Inc(eventsReceived, "update", th[t].n.source)]_vars

\* An add by the orchestrator followed by an update from the less trusted
\* store, and nothing else: the update was rejected.
C5_Witness ==
    /\ calls = 2
    /\ \A t \in Workers : th[t].pc = "idle"
    /\ eventsReceived = [l \in EventTypes \X Sources |->
                            IF l \in {<<"add", Kubernetes>>, <<"update", KVStore>>} THEN 1 ELSE 0]
    /\ \E i \in Ids : Exists(i) /\ enode[nodes[i]].source = Kubernetes

\* C6: every access to an entry's record is made with the entry's guard held.
C6_RecordAccessGuarded == unguarded = {}

\* The positions at which a thread requests Manager.mutex, for writing and
\* for reading, and an entry's mutex.
WantsMutexW(t) == th[t].pc \in {"upd_lock", "del_lock", "close_lock", "da_lock"}
WantsMutexR(t) == th[t].pc \in {"gn_lock", "bg_start", "bg_resolve"}
WantsEntry(t) ==
    th[t].pc \in {"upd_lockEntry", "del_lockEntry", "close_lockEntry", "da_lockEntry",
                  "gn_copy", "sub_lockEntry", "bg_lockEntry"}

HoldsEntry(t) == \E e \in Entries : emutex[e] = t
HoldsMutex(t) == mwriter = t \/ t \in mreaders

\* C7: no thread requests Manager.mutex while it holds an entry's mutex.
C7_MapGuardBeforeEntryGuard ==
    \A t \in Threads : (WantsMutexW(t) \/ WantsMutexR(t)) => ~HoldsEntry(t)

\* A thread holds both guards.
C7_Witness == \E t \in Threads : HoldsEntry(t) /\ HoldsMutex(t)

\* The threads that hold the guard thread u is waiting for.
WaitsOn(u) ==
    IF WantsMutexW(u) THEN ({mwriter} \cup mreaders) \ {NoThread, u}
    ELSE IF WantsMutexR(u) THEN {mwriter} \ {NoThread, u}
    ELSE IF WantsEntry(u) THEN {emutex[th[u].ent]} \ {NoThread, u}
    ELSE {}

\* The threads that cannot go on until a thread of S does.
RECURSIVE StalledBehind(_)
StalledBehind(S) ==
    LET more == {u \in Threads \ S : WaitsOn(u) \cap S # {}}
    IN IF more = {} THEN S ELSE StalledBehind(S \cup more)

InEventFor(u, i) ==
    /\ th[u].pc \in {"upd_lock", "upd_lockEntry", "upd_write", "upd_unlock",
                     "del_lock", "del_lockEntry", "del_unlock"}
    /\ th[u].n.id = i

\* C8: while a thread is inside a handler callback for a node, no
\* NodeUpdated or NodeDeleted for another node has to wait for it.
C8_OtherNodesNotStalled ==
    \A t \in Threads, u \in Workers, i \in Ids :
        (InHandler(t) /\ u # t /\ InEventFor(u, i) /\ i # th[t].call.node.id)
            => u \notin StalledBehind({t})

AboutToReturnFromClose(t) == th[t].pc = "close_unlock"

\* C9 as amended: when Close returns, every identity tracked when it began
\* has received exactly one NodeDelete from it on every handler that was
\* subscribed from its beginning to its end.
C9_CloseNotifiesAll ==
    \A t \in Workers :
        AboutToReturnFromClose(t)
            => /\ closing.by = t
               /\ ~closing.twice
               /\ \A i \in closing.ids, h \in closing.stable : <<i, h>> \in closing.deliv

\* C9 as stated: ... on every handler subscribed when the Close began.
C9_Original ==
    \A t \in Workers :
        AboutToReturnFromClose(t)
            => /\ closing.by = t
               /\ ~closing.twice
               /\ \A i \in closing.ids, h \in closing.hs : <<i, h>> \in closing.deliv

\* A Close that found tracked nodes and subscribed handlers is about to return.
C9_Witness ==
    \E t \in Workers :
        AboutToReturnFromClose(t) /\ closing.ids # {} /\ closing.stable # {}

\* C10: when Close returns, no identity is tracked.
C10_CloseLeavesNoNodes ==
    \A t \in Workers : AboutToReturnFromClose(t) => \A i \in Ids : ~Exists(i)

\* C11: no sequence of NodeUpdated and NodeDeleted events makes the process
\* panic (checked where the caller delivers nothing but such events).
C11_EventsNeverCrash == ~crashed

\* The Close run by a NodeDeleted of the local node from the orchestrator.
InCloseOfNodeDeleted(t) ==
    /\ th[t].n # NoNode
    /\ \/ th[t].pc \in {"close_lock", "close_lockEntry", "close_unlockEntry", "close_unlock",
                         "panic"}
       \/ th[t].cont = "close_unlockEntry"

\* C12: a NodeDeleted of the local node from the orchestrator, the record
\* being owned by another source, shuts the manager down: its Close does not
\* panic and, when it returns, the close signal is raised, every node tracked
\* has received NodeDelete on every handler, and the targeted entry is still
\* in the map.
C12_LocalDeleteShutsDown ==
    \A t \in Workers :
        InCloseOfNodeDeleted(t)
            => /\ th[t].pc # "panic"
               /\ AboutToReturnFromClose(t)
                    => /\ closed
                       /\ \A i \in closing.ids, h \in closing.hs : <<i, h>> \in closing.deliv
                       /\ Exists(th[t].n.id)

\* The events delivered, and the notifications handler h received, in order.
EventsOf(l) == SelectSeq(l, LAMBDA e : e.h = "-")
CallsTo(l, h) == SelectSeq(l, LAMBDA e : e.h = h)

\* The caller has delivered NodeUpdated(rec) twice, every projection owned,
\* and nothing else, and the second delivery has returned.
DeliveredTwice(rec) ==
    /\ th[Caller].pc = "idle"
    /\ EventsOf(log) = <<LogEntry("NodeUpdated", "-", NoNode, rec, TRUE),
                         LogEntry("NodeUpdated", "-", NoNode, rec, TRUE)>>

\* C13: NodeUpdated(rec) delivered twice in a row to a manager that does not
\* track the node, every projection owned, gives every handler exactly one
\* NodeAdd(rec) followed by exactly one NodeUpdate(rec, rec), and leaves the
\* node-count gauge at 1.
C13_TwiceIsAddThenUpdate ==
    \A rec \in Records :
        DeliveredTwice(rec)
            => /\ numNodes = 1
               /\ \A h \in nodeHandlers :
                     CallsTo(log, h) = <<LogEntry("NodeAdd", h, NoNode, rec, TRUE),
                                        LogEntry("NodeUpdate", h, rec, rec, TRUE)>>

C13_Witness == \E rec \in Records : DeliveredTwice(rec)

\* A step of the fan-out of `kind` that continues at cont: the Iter returns
\* having called every subscribed handler, and a call it enters is to a
\* subscribed handler it has not called yet.
EveryHandlerOnce(kind, cont) ==
    \A t \in Threads :
        (th[t].kind = kind /\ th[t].cont = cont /\ th[t].pc \in {"iter", "handler"})
            => /\ th'[t].pc = cont => th[t].got = nodeHandlers
               /\ (th'[t].call # th[t].call /\ th'[t].call # NoCall)
                    => th'[t].call.h \in nodeHandlers \ th[t].got

InFanoutCall(t, kind, cont) ==
    InHandler(t) /\ th[t].call.kind = kind /\ th[t].cont = cont

\* C14: an accepted NodeUpdated for a tracked identity replaces the stored
\* record by the event's record, whole, and, every projection owned, calls
\* NodeUpdate(old, new) once on every subscribed handler, old being the
\* record stored immediately before and new the event's record.
C14_UpdateReplacesAndNotifies ==
    /\ [][\A t \in Workers :
             (th[t].pc = "upd_write" /\ th'[t].pc # "upd_write")
                 => /\ nodes[th[t].n.id] = th[t].ent /\ nodes' = nodes
                    /\ enode'[th[t].ent] = th[t].n
                    /\ th'[t].old = enode[th[t].ent]
                    /\ th[t].dp => (th'[t].pc = "iter" /\ th'[t].kind = "NodeUpdate")]_vars
    /\ [][EveryHandlerOnce("NodeUpdate", "upd_unlock")]_vars
    /\ [](\A t \in Workers :
             InFanoutCall(t, "NodeUpdate", "upd_unlock")
                 => /\ th[t].dp /\ th[t].call.node = th[t].n
                    /\ enode[nodes[th[t].n.id]] = th[t].n)

\* A NodeUpdate call for a record that differs from the one it replaced.
C14_Witness ==
    \E t \in Workers :
        /\ InFanoutCall(t, "NodeUpdate", "upd_unlock")
        /\ th[t].old # NoNode /\ th[t].old.source # th[t].n.source

\* C15: a NodeUpdated for an identity that is not tracked creates the entry
\* with the event's record, increments the node-count gauge by one and, every
\* projection owned, calls NodeAdd(new) once on every subscribed handler.
C15_AddCreatesAndNotifies ==
    /\ [][\A t \in Workers :
             (th[t].pc = "upd_lock" /\ th'[t].pc # "upd_lock" /\ ~Exists(th[t].n.id))
                 => /\ nodes'[th[t].n.id] # NoEntry
                    /\ enode'[nodes'[th[t].n.id]] = th[t].n
                    /\ numNodes' = numNodes + 1
                    /\ th[t].dp => (th'[t].pc = "iter" /\ th'[t].kind = "NodeAdd")]_vars
    /\ [][EveryHandlerOnce("NodeAdd", "upd_unlock")]_vars
    /\ [](\A t \in Workers :
             InFanoutCall(t, "NodeAdd", "upd_unlock")
                 => th[t].dp /\ th[t].call.node = th[t].n)

\* The NodeAdd fan-out of an add is calling the second of two handlers.
C15_Witness ==
    \E t \in Workers :
        /\ InFanoutCall(t, "NodeAdd", "upd_unlock")
        /\ th[t].got = Handlers

\* C16: a NodeDeleted whose source is the source of the tracked record
\* decrements the node-count gauge by one, removes the entry from the map and
\* calls NodeDelete(n) once on every subscribed handler.
C16_DeleteRemovesAndNotifies ==
    /\ [][\A t \in Workers :
             (/\ th[t].pc = "del_lock" /\ th'[t].pc # "del_lock" /\ Exists(th[t].n.id)
              /\ enode[nodes[th[t].n.id]].source = th[t].n.source)
                 => /\ numNodes' = numNodes - 1
                    /\ th'[t].pc = "del_lockEntry"]_vars
    /\ [][\A t \in Workers :
             (th[t].pc = "del_lockEntry" /\ th'[t].pc # "del_lockEntry")
                 => /\ ~Exists(th[t].n.id)'
                    /\ numNodes' = numNodes
                    /\ th'[t].pc = "iter" /\ th'[t].kind = "NodeDelete"]_vars
    /\ [][EveryHandlerOnce("NodeDelete", "del_unlock")]_vars
    /\ [](\A t \in Workers :
             InFanoutCall(t, "NodeDelete", "del_unlock") => th[t].call.node = th[t].n)

\* The NodeDelete fan-out of a delete is calling the second of two handlers.
C16_Witness ==
    \E t \in Workers :
        /\ InFanoutCall(t, "NodeDelete", "del_unlock")
        /\ th[t].got = Handlers

\* C17: once a NodeDeleted is accepted, no address that NodeUpdated projects
\* for the stored record (internal, other when the node is encrypted, health)
\* is still bound in the IP-cache to the deleting source.
C17_DeleteClearsProjections ==
    [][\A t \in Workers :
          (th[t].pc = "del_lock" /\ th'[t].pc = "del_lockEntry")
              => \A k \in Projected(enode[nodes[th[t].n.id]], encryptNode) :
                    ipcache'[k] # th[t].n.source]_vars

\* The thread runs Subscribe (nh is the handler it subscribes).
InSubscribe(t) == th[t].nh # "-"

\* C18: Subscribe(h) registers h and does not return before it has called
\* h.NodeAdd, holding the entry's guard, for every node that was tracked for
\* the whole of the call; it neither misses such a node nor stops the process.
C18_SubscribeReplaysAll ==
    /\ [][\A t \in Workers :
             /\ (th[t].pc = "idle" /\ InSubscribe(t)') => th'[t].nh \in nodeHandlers'
             /\ (th[t].pc = "sub_range" /\ th'[t].pc = "idle") => TrackedIds(nodes) = {}
             /\ (RangeOpen(th[t]) /\ th'[t].pc = "idle") => th[t].todo \subseteq th[t].seen]_vars
    /\ [](\A t \in Workers :
             /\ InSubscribe(t) => th[t].pc # "panic"
             /\ (InHandler(t) /\ InSubscribe(t))
                    => /\ emutex[th[t].ent] = t
                       /\ th[t].call = EnterHandler(t, th[t].nh, "NodeAdd", enode[th[t].ent]))

\* The thread is inside a callback called by Iter.
InIterCall(t) == InHandler(t) /\ t \in hreaders

\* C19: Unsubscribe(h) removes h from the handler set and does nothing else:
\* the step that removes a handler starts no handler call and leaves the
\* tracked nodes, their records and the metrics unchanged; and no call made
\* by Iter is to a handler that is not subscribed.
C19_UnsubscribeSilent ==
    /\ [][(nodeHandlers' # nodeHandlers /\ nodeHandlers' \subseteq nodeHandlers)
             => /\ Cardinality(nodeHandlers \ nodeHandlers') = 1
                /\ th' = th
                /\ closing.deliv' = closing.deliv
                /\ UNCHANGED <<mapVars, lockVars, metricVars, lifeVars>>]_vars
    /\ [](\A t \in Threads : InIterCall(t) => th[t].call.h \in nodeHandlers)

\* A fan-out is calling a handler after the initial handler was unsubscribed.
C19_Witness ==
    \E t \in Threads : InIterCall(t) /\ "h1" \notin nodeHandlers

\* C20: once the close signal is raised, the background loop leaves its wait
\* only to return, and starts no validation cycle.
C20_LoopStopsAfterClose ==
    [][closed
         => /\ (th[BgThread].pc = "bg_wait" /\ th'[BgThread].pc # "bg_wait")
                  => th'[BgThread].pc = "bg_done"
            /\ ~(th[BgThread].pc = "bg_start" /\ th'[BgThread].pc # "bg_start")]_vars

\* No NodeUpdated, NodeDeleted or other operation is in flight.
Quiescent == \A t \in Workers : th[t].pc = "idle"

\* The kind of the last notification handler h received about identity i.
NotificationsFor(h, i) == SelectSeq(log, LAMBDA e : e.h = h /\ e.node.id = i)
LastNotification(h, i) ==
    LET s == NotificationsFor(h, i) IN IF s = <<>> THEN "-" ELSE s[Len(s)].kind

\* Every address projected for the record of identity i is bound to its source.
OwnedProjections(i) ==
    \A k \in Projected(enode[nodes[i]], encryptNode) : ipcache[k] = enode[nodes[i]].source

\* C21: whenever no operation is in flight (and the manager is open), the
\* last notification a subscribed handler received for an identity agrees
\* with the manager's state: it is not NodeDelete while the identity is
\* tracked with owned projections, and it is NodeDelete or nothing while the
\* identity is not tracked.
C21_LastNotificationAgrees ==
    (Quiescent /\ ~closed)
        => \A h \in nodeHandlers, i \in Ids :
              /\ (Exists(i) /\ OwnedProjections(i)) => LastNotification(h, i) # "NodeDelete"
              /\ ~Exists(i) => LastNotification(h, i) \in {"NodeDelete", "-"}

\* The table of lines 203-204 (base one minute: 41.588830833s for 1 node,
\* 1m05.916737320s for 2) gives ln 2 and ln 3 to the digits of Scale:
\* LnLow(n) <= ln(1+n) * Scale < LnLow(n) + 1.
LnLow(n) == IF n = 1 THEN 6931471 ELSE 10986122

\* For a small base b >= 0: r <= b * ln(1+n) < r + 1.
IsFloorOfProduct(r, b, n) ==
    /\ r >= 0
    /\ r * Scale <= b * (LnLow(n) + 1)
    /\ b * LnLow(n) < (r + 1) * Scale

\* The digits of one minute: the first five digits of the table's entries.
TableDigits(n) == IF n = 1 THEN 41588 ELSE 65916

\* r is b * ln(1+n) with the fraction dropped, n being 1 or 2.
IsTruncatedProduct(r, b, n) ==
    IF b = 60000 THEN r = TableDigits(n)
    ELSE IF b >= 0 THEN IsFloorOfProduct(r, b, n)
    ELSE IsFloorOfProduct(0 - r, 0 - b, n)

InIntervalReturn(t) == th[t].pc = "csdi_return"

\* C22: ClusterSizeDependantInterval(base) returns base itself when no node
\* is tracked, and base * ln(1+n), the fraction dropped, when n >= 1 nodes
\* are (41588... for one node and 65916... for two with base 60000...).
C22_IntervalValue ==
    \A t \in Workers :
        InIntervalReturn(t)
            => IF th[t].num = 0 THEN th[t].ret = th[t].base
               ELSE IsTruncatedProduct(th[t].ret, th[t].base, th[t].num)

\* One call is returning for no node and another for two nodes.
C22_Witness ==
    \E t, u \in Workers :
        /\ InIntervalReturn(t) /\ th[t].num = 0 /\ th[t].base = 60000
        /\ InIntervalReturn(u) /\ th[u].num = 2 /\ th[u].base = 9

\* Two calls with the same base are returning, t for fewer nodes than u, the
\* base being at least one nanosecond per node counted (and one more).
ReturningForFewer(t, u) ==
    /\ InIntervalReturn(t) /\ InIntervalReturn(u)
    /\ th[t].base = th[u].base
    /\ th[t].num < th[u].num
    /\ th[t].base >= th[u].num + 1

\* C23 as amended: for node counts 1 <= m < n the interval for m nodes is
\* shorter than the interval for n; the interval for no node is the base,
\* which is longer than the interval for one node.
C23_IncreasingFromOneNode ==
    \A t, u \in Workers :
        ReturningForFewer(t, u)
            => /\ th[t].num >= 1 => th[t].ret < th[u].ret
               /\ (th[t].num = 0 /\ th[u].num = 1) => th[t].ret > th[u].ret

\* C23 as stated: for all node counts m < n, m = 0 included, the interval for
\* m nodes is shorter than the interval for n.
C23_Original ==
    \A t, u \in Workers : ReturningForFewer(t, u) => th[t].ret < th[u].ret

\* One call is returning for one node and another for two, base 60000.
C23_Witness ==
    \E t, u \in Workers :
        /\ ReturningForFewer(t, u)
        /\ th[t].num = 1 /\ th[u].num = 2 /\ th[t].base = 60000

\* The sum of the received-events counter over the labels of L.
RECURSIVE EventsCounted(_)
EventsCounted(L) ==
    IF L = {} THEN 0
    ELSE LET l == CHOOSE x \in L : TRUE IN eventsReceived[l] + EventsCounted(L \ {l})

\* The NodeUpdated calls that have not reached their lookup yet.
BeforeLookup == {t \in Workers : th[t].pc = "upd_lock"}

\* C24: every NodeUpdated call increments the received-events counter once,
\* labelled add when the identity was absent and update when it was present
\* (also when arbitration rejects the event), and every NodeDeleted call
\* increments it once, labelled delete, whatever becomes of the event: the
\* counter changes at no other step, and it counts the calls made.
C24_EveryEventCountedOnce ==
    /\ [][\A t \in Workers :
             /\ (th[t].pc = "upd_lock" /\ th'[t].pc # "upd_lock")
                    => eventsReceived' =
                          Inc(eventsReceived,
                              IF Exists(th[t].n.id) THEN "update" ELSE "add", th[t].n.source)
             /\ (th[t].pc = "idle" /\ th'[t].pc = "del_lock")
                    => eventsReceived' = Inc(eventsReceived, "delete", th'[t].n.source)]_vars
    /\ [][eventsReceived' # eventsReceived
             => \E t \in Workers :
                   \/ th[t].pc = "upd_lock" /\ th'[t].pc # "upd_lock"
                   \/ th[t].pc = "idle" /\ th'[t].pc = "del_lock"]_vars
    /\ [](EventsCounted(EventTypes \X Sources) = calls - Cardinality(BeforeLookup))

\* An add, an update that arbitration rejected and a delete that the source
\* mismatch made ignore have returned: each was counted.
C24_Witness ==
    /\ Quiescent
    /\ eventsReceived = [l \in EventTypes \X Sources |->
                            IF l \in {<<"add", Kubernetes>>, <<"update", KVStore>>,
                                      <<"delete", KVStore>>} THEN 1 ELSE 0]
    /\ \E i \in Ids : Exists(i) /\ enode[nodes[i]].source = Kubernetes

\* NewManager has returned to thread t with an error.
NewManagerFailed(t) == th[t].pc = "new_returned" /\ th[t].err # "nil"

\* C25: when the registration of the metrics fails, NewManager returns the
\* error and a nil manager, and no background loop has been started.
C25_FailedConstruction ==
    \A t \in Workers :
        NewManagerFailed(t)
            => /\ th[t].newm = "nil"
               /\ th[t].err \in RegisterListResults
               /\ th[BgThread].pc = "bg_none"

C25_Witness == \E t \in Workers : NewManagerFailed(t)

\* The thread is inside a range over m.nodes (of Close, DeleteAllNodes,
\* GetNodes or Subscribe), between two of its iteration steps.
InMapRange(t) ==
    \/ th[t].pc \in {"close_lockEntry", "close_unlockEntry", "da_lockEntry", "da_unlockEntry",
                     "gn_copy", "sub_lockEntry", "sub_unlock"}
    \/ /\ th[t].pc \in {"iter", "handler"}
       /\ th[t].cont \in {"close_unlockEntry", "da_unlockEntry", "sub_unlock"}

\* C26: a thread that iterates the nodes map holds Manager.mutex, and no
\* range over the map (the replay of Subscribe included) is open while
\* another thread inserts or removes an entry.
C26_MapAccessGuarded ==
    \A t \in Threads :
        /\ InMapRange(t) => HoldsMutex(t)
        /\ ~th[t].raced

\* The thread is in GetNodes, waiting for or holding an entry's guard to copy
\* the record (lines 453-455).
InGetNodesCopy(t) == th[t].pc = "gn_copy"

\* C27: GetNodes does not hold Manager.mutex while it waits for or holds an
\* entry's guard to copy the record.
C27_SnapshotReleasesMapGuard ==
    \A t \in Workers : InGetNodesCopy(t) => ~HoldsMutex(t)

\* The thread is inside a NodeDelete callback called by Close.
InCloseCallback(t) == InFanoutCall(t, "NodeDelete", "close_unlockEntry")

\* C28: Close calls NodeDelete for an entry holding the entry's guard and
\* having released Manager.mutex: no callback of Close runs while the
\* manager-wide guard is held.
C28_CloseCallsWithoutMapGuard ==
    \A t \in Workers :
        InCloseCallback(t) => (emutex[th[t].ent] = t /\ ~HoldsMutex(t))

\* The identities of the snapshot the background cycle still has to handle,
\* the one in hand included.
BgPending(l) == l.todo \cup ({l.id} \cap Ids)

\* C29: a background cycle handles every identity of the snapshot taken at
\* its start once. An identity still tracked when it is looked up again gets
\* NodeValidateImplementation called once on every subscribed handler, with
\* the record stored then and under the entry's guard, and the validation
\* counter incremented once; one that has vanished is skipped, with no call
\* and no increment.
C29_CycleValidatesTracked ==
    /\ [][(th[BgThread].pc = "bg_start" /\ th'[BgThread].pc # "bg_start")
             => BgPending(th'[BgThread]) = TrackedIds(nodes)]_vars
    /\ [][(th[BgThread].pc = "bg_resolve" /\ th'[BgThread] # th[BgThread])
             => IF Exists(th[BgThread].id)
                THEN /\ th'[BgThread].pc = "bg_lockEntry"
                     /\ th'[BgThread].ent = nodes[th[BgThread].id]
                     /\ validations' = validations
                ELSE /\ th'[BgThread].pc \in {"bg_resolve", "bg_wait"}
                     /\ BgPending(th'[BgThread]) = th[BgThread].todo
                     /\ validations' = validations]_vars
    /\ [][(th[BgThread].pc = "bg_lockEntry" /\ th'[BgThread] # th[BgThread])
             => /\ th'[BgThread].pc = "iter"
                /\ th'[BgThread].kind = "NodeValidateImplementation"]_vars
    /\ [][EveryHandlerOnce("NodeValidateImplementation", "bg_unlock")]_vars
    /\ [](InFanoutCall(BgThread, "NodeValidateImplementation", "bg_unlock")
             => /\ emutex[th[BgThread].ent] = BgThread
                /\ nodes[th[BgThread].id] = th[BgThread].ent
                /\ th[BgThread].call.node = enode[th[BgThread].ent])
    /\ [][(th[BgThread].pc = "bg_unlock" /\ th'[BgThread] # th[BgThread])
             => /\ validations' = validations + 1
                /\ BgPending(th'[BgThread]) = th[BgThread].todo]_vars
    /\ [][validations' # validations => th[BgThread].pc = "bg_unlock"]_vars

\* The cycle has validated one node of its snapshot and is about to skip
\* another, which has vanished since.
C29_Witness ==
    /\ th[BgThread].pc = "bg_resolve"
    /\ ~Exists(th[BgThread].id)
    /\ validations = 1

\* The background loop is inside a NodeValidateImplementation call for i.
Validating(i) ==
    /\ InFanoutCall(BgThread, "NodeValidateImplementation", "bg_unlock")
    /\ th[BgThread].call.node.id = i

\* C30: a node that stays tracked while the manager stays open is validated
\* again and again: NodeValidateImplementation is called for it infinitely
\* often.
C30_TrackedNodesRevalidated ==
    \A i \in Ids :
        <>[](Exists(i) /\ ~closed /\ ~crashed) => []<>Validating(i)

\* The only node ever added is being validated, not for the first time.
C30_Witness ==
    /\ calls = 1
    /\ Validating("n1")
    /\ validations = MaxValidations

\* Thread t takes the lookup step of a NodeDeleted whose identity is absent
\* (lines 387-392).
DeleteOfAbsent(t) ==
    th[t].pc = "del_lock" /\ th'[t].pc # "del_lock" /\ ~Exists(th[t].n.id)

\* C31: a NodeDeleted for an identity that is not tracked increments the
\* received-events counter when it is called and changes nothing else: its
\* lookup returns at once, calls no handler, leaves the gauge, the map, the
\* records and the IP-cache as they are and raises no close signal, the
\* orchestrator's delete of the local node included.
C31_DeleteOfAbsentIsNoOp ==
    /\ [][\A t \in Workers :
             (th[t].pc = "idle" /\ th'[t].pc = "del_lock")
                 => /\ eventsReceived' = Inc(eventsReceived, "delete", th'[t].n.source)
                    /\ UNCHANGED <<mapVars, lockVars, nodeHandlers, lifeVars, numNodes,
                                   validations, cacheVars>>]_vars
    /\ [][\A t \in Workers :
             DeleteOfAbsent(t)
                 => /\ th'[t] = Idle
                    /\ \A u \in Threads \ {t} : th'[u] = th[u]
                    /\ UNCHANGED <<mapVars, lockVars, nodeHandlers, lifeVars, metricVars,
                                   cacheVars, closing>>]_vars

\* The orchestrator's delete of the local node, which was never added, has
\* returned: the manager is open.
C31_Witness ==
    /\ Quiescent
    /\ ~closed
    /\ \E ip \in IPs :
          log = <<LogEntry("NodeDeleted", "-", NoNode,
                           [id |-> LocalNode, source |-> Kubernetes, ip |-> ip], FALSE)>>

\* Thread t takes the lookup step of a NodeDeleted whose identity is tracked
\* (lines 387-397).
DeleteOfTracked(t) ==
    th[t].pc = "del_lock" /\ th'[t].pc # "del_lock" /\ Exists(th[t].n.id)

\* The record tracked for the identity of the event thread t delivers
\* (entry.node, line 397).
TrackedFor(t) == enode[nodes[th[t].n.id]]

ClosesSignal(t) == th[t].pc = "close_lock" /\ th'[t].pc # "close_lock"

\* Thread t has panicked in Close (line 178, on a closed channel).
PanickedInClose(t) == th[t].pc = "panic" /\ ~th[t].raced

\* C33: Close is not idempotent. The first Close raises the close signal; a
\* Close that finds the signal raised, called directly or from NodeDeleted,
\* panics on it: the process stops there with nothing else changed, and a
\* panic in Close happens in no other way.
C33_SecondClosePanics ==
    /\ [][\A t \in Workers :
             (ClosesSignal(t) /\ ~closed)
                 => closed' /\ ~crashed' /\ th'[t].pc # "panic"]_vars
    /\ [][\A t \in Workers :
             (ClosesSignal(t) /\ closed)
                 => /\ crashed' /\ th'[t].pc = "panic"
                    /\ UNCHANGED <<mapVars, lockVars, nodeHandlers, closed, metricVars,
                                   cacheVars>>]_vars
    /\ [](\A t \in Workers : PanickedInClose(t) => closed /\ crashed)

\* A NodeDeleted of the local node from the orchestrator has panicked in the
\* Close it called: the manager was closed already.
C33_Witness ==
    \E t \in Workers :
        /\ PanickedInClose(t)
        /\ th[t].n # NoNode /\ th[t].n.id = LocalNode /\ th[t].n.source = Kubernetes
        /\ closed

\* Thread t is inside DeleteAllNodes, past m.mutex.Lock() (lines 463-472).
InDeleteAllNodes(t) ==
    \/ th[t].pc \in {"da_lockEntry", "da_unlockEntry", "da_finish"}
    \/ th[t].pc \in {"iter", "handler"} /\ th[t].cont = "da_unlockEntry"

\* Thread u is inside NodeUpdated or NodeDeleted (lines 339-373, 387-421).
InEvent(u) ==
    \/ th[u].pc \in {"upd_lock", "upd_lockEntry", "upd_write", "upd_unlock",
                     "del_lock", "del_lockEntry", "del_unlock"}
    \/ th[u].pc \in {"iter", "handler"} /\ th[u].cont \in {"upd_unlock", "del_unlock"}

\* The identities the range of DeleteAllNodes (line 464) has still to
\* handle, the one in hand included.
DaPending(l) == l.todo \cup ({l.id} \cap Ids)

\* Thread t is inside a NodeDelete callback of DeleteAllNodes (lines 466-468).
InDaCallback(t) == InFanoutCall(t, "NodeDelete", "da_unlockEntry")

\* C34 as amended: DeleteAllNodes holds Manager.mutex from its first step to
\* its last; it ranges once over the identities tracked when it took the
\* guard and, for each, with the entry's guard held, calls NodeDelete with
\* the entry's record once on every handler subscribed during that fan-out;
\* it leaves the map empty. While it runs no other thread acquires
\* Manager.mutex or changes the map; a NodeUpdated or NodeDeleted that
\* released Manager.mutex before may still run its own fan-out.
C34_DeleteAllNotifiesAndEmpties ==
    /\ [](\A t \in Workers : InDeleteAllNodes(t) => mwriter = t)
    /\ [][\A t \in Workers :
             (th[t].pc = "da_lock" /\ th'[t].pc # "da_lock")
                 => DaPending(th'[t]) = TrackedIds(nodes)]_vars
    /\ [][\A t \in Workers :
             (th[t].pc = "da_lockEntry" /\ th'[t].pc # "da_lockEntry")
                 => /\ emutex'[th[t].ent] = t
                    /\ th[t].ent = nodes[th[t].id]
                    /\ th'[t].pc = "iter" /\ th'[t].kind = "NodeDelete"]_vars
    /\ [][EveryHandlerOnce("NodeDelete", "da_unlockEntry")]_vars
    /\ [](\A t \in Workers :
             InDaCallback(t)
                 => /\ emutex[th[t].ent] = t
                    /\ th[t].call.node = enode[th[t].ent]
                    /\ th[t].call.node.id = th[t].id)
    /\ [][\A t \in Workers :
             (th[t].pc = "da_unlockEntry" /\ th'[t].pc # "da_unlockEntry")
                 => /\ emutex'[th[t].ent] = NoThread
                    /\ DaPending(th'[t]) = th[t].todo]_vars
    /\ [][\A t \in Workers :
             InDeleteAllNodes(t)
                 => IF th'[t].pc = "idle"
                    THEN th[t].todo = {} /\ \A i \in Ids : nodes'[i] = NoEntry
                    ELSE nodes' = nodes]_vars
    /\ [][\A t \in Workers, u \in Threads :
             (InDeleteAllNodes(t) /\ u # t /\ (WantsMutexW(u) \/ WantsMutexR(u)))
                 => th'[u] = th[u]]_vars

\* C34 as stated: ... no NodeUpdated or NodeDeleted interleaves with
\* DeleteAllNodes: while it runs, no thread inside one of them enters a
\* handler callback.
C34_Original ==
    [][\A t \in Workers, u \in Workers :
          (InDeleteAllNodes(t) /\ u # t /\ InEvent(u))
              => (th'[u].call = th[u].call \/ th'[u].call = NoCall)]_vars

\* DeleteAllNodes is inside the NodeDelete callback for the last identity of
\* its range while another thread is inside a callback of the NodeUpdated
\* that added another node, tracked since before DeleteAllNodes began.
C34_Witness ==
    \E t \in Workers, u \in Workers :
        /\ u # t
        /\ InDaCallback(t)
        /\ InFanoutCall(u, "NodeAdd", "upd_unlock")
        /\ th[u].n.id # th[t].id
        /\ Exists(th[u].n.id)
        /\ th[t].todo = {th[u].n.id}

\* C35: whenever no operation is in flight, the node-count gauge equals the
\* number of entries of the nodes map (checked where the callers deliver
\* NodeUpdated and NodeDeleted events and call DeleteAllNodes).
C35_GaugeCountsEntries ==
    Quiescent => numNodes = Cardinality(TrackedIds(nodes))

\* The first k notifications of s include a NodeAdd (lines 369, 110) that no
\* NodeDelete (lines 419, 188, 467) follows.
AddedAndNotDeleted(s, k) ==
    \E j \in 1..k : /\ s[j].kind = "NodeAdd"
                    /\ \A m \in (j + 1)..k : s[m].kind # "NodeDelete"

\* Thread t is inside NodeValidateImplementation of handler h for identity i
\* (lines 258-260).
InValidationOf(t, h, i) ==
    /\ InFanoutCall(t, "NodeValidateImplementation", "bg_unlock")
    /\ th[t].call.h = h
    /\ th[t].call.node.id = i

\* C36: a handler subscribed throughout receives NodeUpdate, NodeDelete and
\* NodeValidateImplementation for an identity only after a NodeAdd for that
\* identity that no NodeDelete has followed since.
C36_NotifiedOnlyAfterAdd ==
    \A h \in nodeHandlers, i \in Ids :
        LET s == NotificationsFor(h, i) IN
        /\ \A k \in 1..Len(s) :
              s[k].kind \in {"NodeUpdate", "NodeDelete"} => AddedAndNotDeleted(s, k - 1)
        /\ \A t \in Threads : InValidationOf(t, h, i) => AddedAndNotDeleted(s, Len(s))

\* C37: a handler never receives two NodeAdd notifications for an identity
\* without a NodeDelete for it in between (checked where handlers are
\* subscribed while events are delivered).
C37_NoAddTwice ==
    \A h \in Handlers, i \in Ids :
        LET s == NotificationsFor(h, i) IN
        \A j, k \in 1..Len(s) :
            (j < k /\ s[j].kind = "NodeAdd" /\ s[k].kind = "NodeAdd")
                => \E m \in (j + 1)..(k - 1) : s[m].kind = "NodeDelete"

\* Thread t runs an operation of the manager: a method called and not
\* returned.
InOperation(t) == th[t].pc # "idle"

\* C38: no interleaving of the operations and the background loop deadlocks
\* over Manager.mutex, the entry guards and nodeHandlersMu: every operation
\* that has started returns in the end.
C38_EveryOperationCompletes ==
    \A t \in Workers : InOperation(t) ~> ~InOperation(t)

\* The event during which entry k of the log was recorded: the last event
\* delivered before it.
RECURSIVE EventOf(_)
EventOf(k) == IF k = 0 \/ log[k].h = "-" THEN k ELSE EventOf(k - 1)

\* Entry k of the log is a NodeDelete called by Close (lines 185-191, called
\* from line 401). NodeDeleted passes its
\* own record to NodeDelete; the Close it calls on a source mismatch passes
\* the records of the entries, none of which is the event's.
DeliveredByClose(k) ==
    /\ log[k].kind = "NodeDelete"
    /\ EventOf(k) > 0
    /\ log[EventOf(k)].kind = "NodeDeleted"
    /\ log[EventOf(k)].node # log[k].node

\* Close has called NodeDelete for identity i on handler h (line 188).
CloseDelivered(h, i) ==
    \E k \in 1..Len(log) : DeliveredByClose(k) /\ log[k].h = h /\ log[k].node.id = i

\* C39: once Close has called NodeDelete for a node on a handler, the
\* background loop calls NodeValidateImplementation for that node on no
\* handler.
C39_NoValidationAfterClose ==
    \A h \in Handlers, i \in Ids :
        CloseDelivered(h, i) => \A g \in Handlers : ~InValidationOf(BgThread, g, i)

\* Whether the manager accepts event ev when it tracks the records tr, and
\* the records it tracks afterwards (lines 344 and 389-407).
Accepts(tr, ev) ==
    IF ev.kind = "NodeUpdated"
    THEN tr[ev.node.id] = NoNode \/ AllowOverwrite(tr[ev.node.id].source, ev.node.source)
    ELSE tr[ev.node.id] # NoNode /\ tr[ev.node.id].source = ev.node.source

TrackedAfterEvent(tr, ev) ==
    IF ~Accepts(tr, ev) THEN tr
    ELSE [tr EXCEPT ![ev.node.id] = IF ev.kind = "NodeUpdated" THEN ev.node ELSE NoNode]

\* The records tracked after the first k events of the log, delivered one
\* after the other, and whether each of them was accepted.
RECURSIVE TrackedAfter(_)
TrackedAfter(k) ==
    IF k = 0 THEN [i \in Ids |-> NoNode]
    ELSE TrackedAfterEvent(TrackedAfter(k - 1), EventsOf(log)[k])

AllAccepted ==
    \A k \in 1..Len(EventsOf(log)) : Accepts(TrackedAfter(k - 1), EventsOf(log)[k])

\* The addresses of a record (n.IPAddresses and the health addresses, lines
\* 284-337), and those of the tracked records.
Addresses(n) == InternalAddresses(n) \cup OtherAddresses(n) \cup HealthAddresses(n)
TrackedAddresses == UNION {Addresses(enode[nodes[i]]) : i \in TrackedIds(nodes)}

\* C40: when the events delivered so far were all accepted and the last has
\* returned, every address bound in the IP-cache is an address of a tracked
\* record.
C40_NoStaleBindings ==
    (th[Caller].pc = "idle" /\ AllAccepted)
        => \A k \in CacheKeys : ipcache[k] # NoSource => k \in TrackedAddresses

====
